---- MODULE Spec2Model ----
(***************************************************************************)
(* A model of the orchestration and protocol layer of the aether drone     *)
(* fleet: the mission detector (aether_common/detection.py), the MAVLink   *)
(* command/acknowledgment correlator (cloud-bridge/src/mavlink.py), the    *)
(* mission upload handshake (cloud-bridge/src/mission.py) and the per-     *)
(* drone entity workflow (orchestrator/src/workflows.py).                  *)
(*                                                                         *)
(* Each component has its own specification (SpecDetector, SpecMavlink,    *)
(* SpecMission, SpecEntity); the variables of the other components keep    *)
(* their initial values under it.                                          *)
(*                                                                         *)
(* Conventions: Python's None is NoneVal for numbers and "none" for the    *)
(* tri-state armed flag; an absent sample is NoSample.  Timestamps are     *)
(* whole seconds, latitudes and longitudes are whole micro-degrees,        *)
(* distances are whole millimetres.                                        *)
(***************************************************************************)
EXTENDS Integers, Sequences, FiniteSets, TLC

(* ----------------------------- bounds ---------------------------------- *)
\* Timestamps of the samples fed to the detector are k * TickSec, k <= MaxTick.
MaxTick == 3
TickSec == 15
\* Latitudes and longitudes are k * GridUDeg micro-degrees, k <= MaxGrid.
MaxGrid == 1
GridUDeg == 70

\* MavlinkConnection: number of send_command_long_async calls, largest timeout
\* (in clock ticks), last clock tick, largest MAV_RESULT in a COMMAND_ACK.
MaxCalls == 2
MaxTimeout == 2
MaxTime == 3
MaxAckResult == 1

\* MissionManager: longest item list handed to _upload_list on its own.
MaxItems == 2

\* DroneEntityWorkflow: child workflows started, disarm waits entered,
\* assign_mission signals handled, and the step of the workflow clock in seconds.
MaxSessions == 2
MaxWaits == 2
MaxAssign == 2
WaitStepSec == 300

\* MissionWorkflow: waypoints in a plan, failed attempts of one activity.
MaxWaypoints == 2
MaxAttempts == 2

\* FleetDispatcher: dispatch_mission calls made.
MaxDispatches == 2

\* MissionRequestWorkflow: failed attempts of find_available_drone and of
\* assign_mission_to_drone (the code sets no limit on either).
MaxFinds == 3
MaxAssignAttempts == 2

\* CloudBridge: command messages received.
MaxCommands == 2

NoneVal == 0 - 1

(* ---------------------------- variables -------------------------------- *)
VARIABLES
  \* StreamProcessor.handle_telemetry driving MissionDetector.evaluate
  det_pc,       \* "idle", or "evaluated": evaluate returned, result not stored yet
  det_state,    \* context.detector_state, the object passed to evaluate
  det_prev,     \* its value when the last evaluate was entered
  det_sample,   \* the sample passed to the last evaluate
  det_new,      \* the state the last evaluate returned
  det_event,    \* the event the last evaluate returned
  \* MavlinkConnection
  mav_master,   \* self.master is set (connect() succeeded)
  mav_pending,  \* self.pending_commands: command id -> call owning the Future, 0: no entry
  mav_calls,    \* the send_command_long_async calls
  mav_now,      \* the event loop's clock
  mav_ignored,  \* the last COMMAND_ACK handle_command_ack found no entry for
  \* MissionManager
  mis_items,    \* self.current_mission_items: mission type -> items, <<>>: no entry
  mis_uploaded, \* per type, the last non-empty list handed to _upload_list
                \* since current_mission_items was last cleared
  mis_last,     \* the last call made on the manager
  mis_sent,     \* the MAVLink messages that call sent, in order
  \* DroneEntityWorkflow
  ent_pc,        \* where run is: "idle" (line 149), "disarm_wait" (line 189),
                 \* "done" (returned), "failed" (an exception left the loop body)
  ent_status,    \* self._status
  ent_exit,      \* self._exit
  ent_latest,    \* self._latest_telemetry
  ent_start,     \* self._session_start_sample
  ent_handle,    \* self._active_session_handle: index into ent_children, 0: None
  ent_children,  \* the child workflows started so far, in order
  ent_signals,   \* the signals sent to child workflows so far, in order
  ent_wait,      \* seconds spent in the current disarm wait
  ent_wait_ends, \* how the disarm waits so far ended, in order
  ent_known,     \* per field, the last non-None value any sample supplied
  ent_assigned,  \* the plan ids of the assign_mission signals handled, in order
  \* MissionWorkflow
  mw_pc,         \* where run is: "start", "preflight", "ARM", "TAKEOFF",
                 \* "waypoints", "LAND", "done" (returned), "failed" (raised)
  mw_plan,       \* mission_plan: has non-empty constraints, number of waypoints
  mw_mqtt,       \* activities.mqtt_connection is set
  mw_failures,   \* failed attempts of the activity the workflow is waiting for
  mw_preflights, \* attempts of check_preflight so far
  mw_log,        \* commands published to the vehicle and sleeps taken, in order
  mw_vehicle,    \* per command, what the bridge reported for its last execution
  mw_result,     \* the result run returned, "none" before
  \* FleetDispatcher
  dsp_calls,     \* the dispatch_mission calls made so far, in order
  dsp_signals    \* the handle.signal calls made so far, in order

\* The last event that an evaluate before the current one returned ("None"
\* when there was none).
VARIABLE det_last
\* Whether the start_sample of the candidate held in context.detector_state
\* got its position from the backfill of an earlier evaluate.
VARIABLE det_backfilled
detVars == <<det_pc, det_state, det_prev, det_sample, det_new, det_event, det_last,
             det_backfilled>>
mavVars == <<mav_master, mav_pending, mav_calls, mav_now, mav_ignored>>
misVars == <<mis_items, mis_uploaded, mis_last, mis_sent>>
\* What has been signalled to the entity so far, as far as the claims need it:
\* "none", "armed_fix" (one sample, armed and with a position),
\* "armed_then_moved" (that sample, then an armed one at least
\* min_duration_seconds later and min_distance_meters away), "other".
VARIABLE ent_history
entVars == <<ent_pc, ent_status, ent_exit, ent_latest, ent_start, ent_handle,
             ent_children, ent_signals, ent_wait, ent_wait_ends, ent_known,
             ent_assigned, ent_history>>
mwVars == <<mw_pc, mw_plan, mw_mqtt, mw_failures, mw_preflights, mw_log,
            mw_vehicle, mw_result>>
dspVars == <<dsp_calls, dsp_signals>>

\* MissionRequestWorkflow: the position of run, the plan plan_mission returned,
\* the attempts of the two dispatch activities, the drone the search returned,
\* the assign_mission signals delivered and the workflow's result; with it the
\* fleet index's current answer and the drones whose entity is busy.
VARIABLES req_pc, req_plan, req_index, req_busy, req_finds, req_drone,
          req_assigns, req_signals, req_result
reqVars == <<req_pc, req_plan, req_index, req_busy, req_finds, req_drone,
             req_assigns, req_signals, req_result>>

\* CloudBridge: the runs of on_command_received and the status messages
\* published.
VARIABLES br_handlers, br_published
brVars == <<br_handlers, br_published>>
vars == <<detVars, mavVars, misVars, entVars, mwVars, dspVars, reqVars, brVars>>

(* ------------------------ telemetry samples ---------------------------- *)
\* DroneState, reduced to the fields the detector and the entity read.
NoSample ==
  [type |-> "NoSample", timestamp |-> NoneVal, armed |-> "none",
   lat |-> NoneVal, lon |-> NoneVal, alt |-> NoneVal]

Timestamps == {NoneVal} \cup {k * TickSec : k \in 0..MaxTick}
GridValues == {k * GridUDeg : k \in 0..MaxGrid}
\* A sample either carries a position fix (lat, lon and alt) or none of it.
Positions ==
  {[lat |-> NoneVal, lon |-> NoneVal, alt |-> NoneVal]} \cup
  {[lat |-> la, lon |-> lo, alt |-> 10] : la \in GridValues, lo \in GridValues}

Samples ==
  {[type |-> ty, timestamp |-> ts, armed |-> ar,
    lat |-> p.lat, lon |-> p.lon, alt |-> p.alt] :
     ty \in {"HEARTBEAT", "HOME_POSITION"}, ts \in Timestamps,
     ar \in {"none", "true", "false"}, p \in Positions}

(* --------------------------- MissionDetector --------------------------- *)
MIN_DURATION_SEC == 30
MIN_DISTANCE_M == 10
MetersPerDegree == 111139

\* DetectorState(state_name) with the dataclass defaults for the other fields.
DetectorState(name, start, home, last) ==
  [state_name |-> name, start_sample |-> start, home_position |-> home,
   last_processed_timestamp |-> last]

RECURSIVE ISqrtBetween(_, _, _)
ISqrtBetween(n, lo, hi) ==
  IF lo >= hi THEN lo
  ELSE LET mid == (lo + hi + 1) \div 2
       IN IF mid * mid <= n THEN ISqrtBetween(n, mid, hi)
          ELSE ISqrtBetween(n, lo, mid - 1)

\* floor(sqrt(n)) for 0 <= n < 2^30
ISqrt(n) == ISqrtBetween(n, 0, 32767)

\* _calculate_distance: sqrt(dlat^2 + dlon^2) * 111139 metres, dlat and dlon in
\* degrees; 0.0 when a coordinate is missing.  Coordinates here are micro-
\* degrees: r is the planar offset in units of 1e-8 degree, and one such unit
\* is 1.11139 mm, so the result is the distance in mm (rounded down).
DistanceMm(s1, s2) ==
  IF s1.lat = NoneVal \/ s1.lon = NoneVal \/ s2.lat = NoneVal \/ s2.lon = NoneVal
  THEN 0
  ELSE LET dlat == s2.lat - s1.lat
           dlon == s2.lon - s1.lon
           r == ISqrt((dlat * dlat + dlon * dlon) * 10000)
       IN r + (r * (MetersPerDegree - 100000)) \div 100000

\* A backfill that also takes the sample's timestamp.
BackfilledStartRestamped(cs, sample) ==
  LET start == cs.start_sample
  IN IF start.lat = NoneVal /\ cs.home_position = NoSample /\ sample.lat # NoneVal
     THEN [start EXCEPT !.lat = sample.lat, !.lon = sample.lon, !.alt = sample.alt,
                        !.timestamp = sample.timestamp]
     ELSE start

\* The candidate's start sample after the position backfill of evaluate:
\* only when start has no latitude, no home position is known and the sample
\* has a latitude.
BackfilledStart(cs, sample) ==
  LET start == cs.start_sample
  IN IF start.lat = NoneVal /\ cs.home_position = NoSample /\ sample.lat # NoneVal
     THEN [start EXCEPT !.lat = sample.lat, !.lon = sample.lon, !.alt = sample.alt]
     ELSE start

\* A reference that is always the candidate's own start sample.
RefSampleStartOnly(cs, sample) == BackfilledStart(cs, sample)

\* ref_sample of evaluate: the sample the distance is measured from.
RefSample(cs, sample) ==
  IF cs.start_sample.lat = NoneVal /\ cs.home_position # NoSample
  THEN cs.home_position
  ELSE BackfilledStart(cs, sample)

\* Mutants of CandidateConfirmed: duration alone confirms; strict comparisons.
CandidateConfirmedDurationOnly(duration, dist) ==
  duration >= MIN_DURATION_SEC

CandidateConfirmedStrict(duration, dist) ==
  duration > MIN_DURATION_SEC /\ dist > MIN_DISTANCE_M * 1000

CandidateConfirmed(duration, dist) ==
  duration >= MIN_DURATION_SEC /\ dist >= MIN_DISTANCE_M * 1000

\* A candidate that is reset by every sample not reporting armed true.
CandidateResetsUnlessArmed(sample) == sample.armed # "true"

\* A candidate that no sample resets.
CandidateResetsNever(sample) == FALSE

\* The reset test of the CANDIDATE branch: sample.armed is False
CandidateResets(sample) == sample.armed = "false"

EvaluateCandidate(cs, sample) ==
  IF CandidateResets(sample)
  THEN [state |-> DetectorState("IDLE", NoSample, cs.home_position, 0),
        event |-> "None"]
  ELSE IF cs.start_sample = NoSample
  THEN [state |-> DetectorState("IDLE", NoSample, NoSample, 0), event |-> "None"]
  ELSE LET start == BackfilledStart(cs, sample)
           duration == sample.timestamp - start.timestamp
           dist == DistanceMm(RefSample(cs, sample), sample)
       IN IF CandidateConfirmed(duration, dist)
          THEN [state |-> DetectorState("IN_MISSION", start, cs.home_position,
                                        sample.timestamp),
                event |-> "MISSION_STARTED"]
          ELSE [state |-> [cs EXCEPT !.start_sample = start], event |-> "None"]

\* A mission that is ended by every sample not reporting armed true.
MissionEndsUnlessArmed(sample) == sample.armed # "true"

\* The end test of the IN_MISSION branch: sample.armed is False
MissionEnds(sample) == sample.armed = "false"

\* A mission branch that adds the sample's timestamp to
\* last_processed_timestamp instead of storing it.
EvaluateInMissionElapsed(cs, sample) ==
  IF MissionEnds(sample)
  THEN [state |-> DetectorState("IDLE", NoSample, NoSample, 0),
        event |-> "MISSION_ENDED"]
  ELSE [state |-> [cs EXCEPT !.last_processed_timestamp = @ + sample.timestamp],
        event |-> "None"]

EvaluateInMission(cs, sample) ==
  IF MissionEnds(sample)
  THEN [state |-> DetectorState("IDLE", NoSample, NoSample, 0),
        event |-> "MISSION_ENDED"]
  ELSE [state |-> [cs EXCEPT !.last_processed_timestamp = sample.timestamp],
        event |-> "None"]

\* An idle branch that announces the mission when the vehicle arms.
EvaluateIdleAnnounces(cs, sample) ==
  IF sample.armed = "true"
  THEN [state |-> DetectorState("CANDIDATE", sample, cs.home_position,
                                sample.timestamp),
        event |-> "MISSION_STARTED"]
  ELSE [state |-> cs, event |-> "None"]

EvaluateIdle(cs, sample) ==
  IF sample.armed = "true"
  THEN [state |-> DetectorState("CANDIDATE", sample, cs.home_position,
                                sample.timestamp),
        event |-> "None"]
  ELSE [state |-> cs, event |-> "None"]

\* A home position update that also drops the candidate or mission.
AbsorbHomeAndReset(cs, sample) == DetectorState("IDLE", NoSample, sample, 0)

\* current_state.home_position = sample
AbsorbHome(cs, sample) == [cs EXCEPT !.home_position = sample]

\* MissionDetector.evaluate(current_state, sample) -> (new_state, event)
Evaluate(cs, sample) ==
  IF sample.timestamp = NoneVal \/ sample.timestamp = 0
  THEN [state |-> cs, event |-> "None"]
  ELSE IF sample.type = "HOME_POSITION"
  THEN [state |-> AbsorbHome(cs, sample), event |-> "None"]
  ELSE IF cs.state_name = "IDLE" THEN EvaluateIdle(cs, sample)
  ELSE IF cs.state_name = "CANDIDATE" THEN EvaluateCandidate(cs, sample)
  ELSE EvaluateInMission(cs, sample)

\* The value of the DetectorState object passed to evaluate once the call is
\* over: evaluate assigns home_position and last_processed_timestamp on it
\* and writes the backfilled position into its start_sample.
ArgumentAfter(cs, sample) ==
  IF sample.timestamp = NoneVal \/ sample.timestamp = 0 THEN cs
  ELSE IF sample.type = "HOME_POSITION" THEN AbsorbHome(cs, sample)
  ELSE IF cs.state_name = "CANDIDATE" /\ sample.armed # "false"
          /\ cs.start_sample # NoSample
  THEN [cs EXCEPT !.start_sample = BackfilledStart(cs, sample)]
  ELSE IF cs.state_name = "IN_MISSION" /\ sample.armed # "false"
  THEN [cs EXCEPT !.last_processed_timestamp = sample.timestamp]
  ELSE cs

InitDetector ==
  /\ det_pc = "idle"
  /\ det_state = DetectorState("IDLE", NoSample, NoSample, 0)
  /\ det_prev = det_state
  /\ det_sample = NoSample
  /\ det_new = det_state
  /\ det_event = "None"
  /\ det_last = "None"
  /\ det_backfilled = FALSE

\* processor.handle_telemetry, first half: evaluate(context.detector_state, sample)
DetectorEvaluate ==
  /\ det_pc = "idle"
  /\ \E sample \in Samples :
       LET r == Evaluate(det_state, sample)
       IN /\ det_prev' = det_state
          /\ det_sample' = sample
          /\ det_state' = ArgumentAfter(det_state, sample)
          /\ det_new' = r.state
          /\ det_event' = r.event
          /\ UNCHANGED <<det_last, det_backfilled>>
  /\ det_pc' = "evaluated"
  /\ UNCHANGED <<mavVars, misVars, entVars, mwVars, dspVars, reqVars, brVars>>

\* processor.handle_telemetry, second half: context.detector_state = new_state
DetectorStore ==
  /\ det_pc = "evaluated"
  /\ det_pc' = "idle"
  /\ det_state' = det_new
  /\ det_prev' = det_new
  /\ det_sample' = NoSample
  /\ det_event' = "None"
  /\ det_last' = IF det_event # "None" THEN det_event ELSE det_last
  /\ det_backfilled' =
       IF det_new.state_name # "CANDIDATE" \/ det_prev.state_name # "CANDIDATE"
       THEN FALSE
       ELSE IF det_prev.start_sample.lat = NoneVal /\ det_new.start_sample.lat # NoneVal
       THEN TRUE
       ELSE det_backfilled
  /\ UNCHANGED det_new
  /\ UNCHANGED <<mavVars, misVars, entVars, mwVars, dspVars, reqVars, brVars>>


(* -------------------------- MavlinkConnection -------------------------- *)
\* MAV_CMD_COMPONENT_ARM_DISARM (400, used by arm_async and disarm_async) and
\* MAV_CMD_NAV_TAKEOFF (22).
Commands == {400, 22}
AckResults == 0..MaxAckResult
CallIds == 1..MaxCalls

\* One send_command_long_async call.  fut is the state of the asyncio.Future it
\* created ("none" before line 89), fut_result the value set_result gave it.
\* first_ack, delivered and entry_at_return record what happened to the call:
\* the result of the first COMMAND_ACK carrying its command id that was handled
\* while it was waiting, the result handle_command_ack gave to its future, and
\* whether pending_commands held its command id when it returned.
NewCall ==
  [pc |-> "new", command |-> 0, sent_at |-> NoneVal, deadline |-> NoneVal,
   fut |-> "none", fut_result |-> NoneVal, result |-> "none",
   returned_at |-> NoneVal, first_ack |-> NoneVal, delivered |-> NoneVal,
   entry_at_return |-> FALSE]

\* No acknowledgment has been discarded yet.
NoAck == [command |-> 0, result |-> NoneVal, duplicate |-> FALSE]

InitMavlink ==
  /\ mav_master = FALSE
  /\ mav_pending = [c \in Commands |-> 0]
  /\ mav_calls = [i \in CallIds |-> NewCall]
  /\ mav_now = 0
  /\ mav_ignored = NoAck

\* A call is outstanding from its entry until it returns.
Outstanding(i) == mav_calls[i].pc \in {"awaiting", "resolved", "cancelled"}

\* MavlinkConnection.connect
MavConnect ==
  /\ ~mav_master
  /\ mav_master' = TRUE
  /\ UNCHANGED <<mav_ignored, mav_pending, mav_calls, mav_now, detVars, misVars, entVars,
                 mwVars, dspVars, reqVars, brVars>>

\* send_command_long_async up to its await: without a master it returns False
\* at once; otherwise it creates the Future, stores it under the command id
\* (replacing any entry already there), sends COMMAND_LONG and waits.
SendCommandLongAsync(i, c, timeout) ==
  /\ mav_calls[i].pc = "new"
  /\ \A j \in CallIds : j < i => mav_calls[j].pc # "new"
  /\ IF ~mav_master
     THEN /\ mav_calls' = [mav_calls EXCEPT ![i] =
                 [@ EXCEPT !.pc = "returned", !.command = c, !.result = "false",
                           !.returned_at = mav_now,
                           !.entry_at_return = (mav_pending[c] # 0)]]
          /\ UNCHANGED mav_pending
     ELSE /\ mav_calls' = [mav_calls EXCEPT ![i] =
                 [@ EXCEPT !.pc = "awaiting", !.command = c, !.fut = "pending",
                           !.sent_at = mav_now, !.deadline = mav_now + timeout]]
          /\ mav_pending' = [mav_pending EXCEPT ![c] = i]
  /\ UNCHANGED <<mav_ignored, mav_master, mav_now>>

\* A send_command_long_async call made by a caller outside the model.
MavSend(i, c, timeout) ==
  /\ SendCommandLongAsync(i, c, timeout)
  /\ UNCHANGED <<detVars, misVars, entVars, mwVars, dspVars, reqVars, brVars>>

\* The calls still waiting on their Future that a COMMAND_ACK for c matches by
\* command id.
WaitingOn(c) ==
  {j \in CallIds : mav_calls[j].pc = "awaiting" /\ mav_calls[j].command = c}

\* The value handle_command_ack resolves the Future with.
AckFutureResult(result) == result

\* An acknowledgment matched to whichever call waits on its command id, entry
\* or no entry.
AckOwnerAnyWaiting(c) ==
  IF mav_pending[c] # 0 THEN mav_pending[c]
  ELSE IF WaitingOn(c) # {} THEN CHOOSE j \in WaitingOn(c) : TRUE
  ELSE 0

\* An acknowledgment discarded when more than one call waits on its command id.
AckOwnerUnambiguous(c) ==
  IF Cardinality(WaitingOn(c)) > 1 THEN 0 ELSE mav_pending[c]

\* The call whose Future pending_commands holds under msg.command (0: the
\* command id is not in pending_commands).
AckOwner(c) == mav_pending[c]

\* handle_command_ack(msg): pops the entry of msg.command, if any, and resolves
\* its Future with msg.result unless the Future is already done; without an
\* entry it only logs the acknowledgment.  duplicate notes whether a call for
\* that command id had been resolved by an earlier acknowledgment.
MavHandleCommandAck(c, result) ==
  LET owner == AckOwner(c)
      resolves == owner # 0 /\ mav_calls[owner].fut = "pending"
  IN /\ mav_pending' = [mav_pending EXCEPT ![c] = 0]
     /\ mav_calls' =
          [j \in CallIds |->
             LET call == mav_calls[j]
                 seen == IF j \in WaitingOn(c) /\ call.first_ack = NoneVal
                         THEN [call EXCEPT !.first_ack = result]
                         ELSE call
             IN IF resolves /\ j = owner
                THEN [seen EXCEPT !.pc = "resolved", !.fut = "done",
                                  !.fut_result = AckFutureResult(result),
                                  !.delivered = result]
                ELSE seen]
     /\ mav_ignored' =
          IF owner = 0
          THEN [command |-> c, result |-> result,
                duplicate |-> \E j \in CallIds :
                                 mav_calls[j].command = c /\ mav_calls[j].fut = "done"]
          ELSE mav_ignored
     /\ UNCHANGED <<mav_master, mav_now, detVars, misVars, entVars, mwVars, dspVars, reqVars, brVars>>

\* A correlator that takes every acknowledgment for a success.
AckSuccessAnyResult(result) == result >= 0

\* success = result == 0 (MAV_RESULT_ACCEPTED)
AckSuccess(result) == result = 0

\* wait_for returned the Future's result: the call returns result == 0.
MavReturnResult(i) ==
  /\ mav_calls[i].pc = "resolved"
  /\ mav_calls' = [mav_calls EXCEPT ![i] =
        [@ EXCEPT !.pc = "returned",
                  !.result = IF AckSuccess(mav_calls[i].fut_result) THEN "true" ELSE "false",
                  !.returned_at = mav_now,
                  !.entry_at_return = (mav_pending[mav_calls[i].command] # 0)]]
  /\ UNCHANGED <<mav_ignored, mav_master, mav_pending, mav_now, detVars, misVars,
                 entVars, mwVars, dspVars, reqVars, brVars>>

\* asyncio.wait_for at the deadline, the Future still pending: it cancels the
\* Future; TimeoutError reaches the caller one loop iteration later.
MavTimeoutFires(i) ==
  /\ mav_calls[i].pc = "awaiting"
  /\ mav_now >= mav_calls[i].deadline
  /\ mav_calls' = [mav_calls EXCEPT ![i] = [@ EXCEPT !.pc = "cancelled", !.fut = "cancelled"]]
  /\ UNCHANGED <<mav_ignored, mav_master, mav_pending, mav_now, detVars, misVars,
                 entVars, mwVars, dspVars, reqVars, brVars>>

\* An except branch that leaves pending_commands as it is.
PendingKeptAfterTimeout(i) == mav_pending

\* pending_commands after the except branch: pending_commands.pop(command, None)
PendingAfterTimeout(i) ==
  [mav_pending EXCEPT ![mav_calls[i].command] = 0]

\* except asyncio.TimeoutError: pop the command's entry and return False.
MavTimeoutReturns(i) ==
  /\ mav_calls[i].pc = "cancelled"
  /\ mav_pending' = PendingAfterTimeout(i)
  /\ mav_calls' = [mav_calls EXCEPT ![i] =
        [@ EXCEPT !.pc = "returned", !.result = "false", !.returned_at = mav_now,
                  !.entry_at_return = (mav_pending'[mav_calls[i].command] # 0)]]
  /\ UNCHANGED <<mav_ignored, mav_master, mav_now, detVars, misVars, entVars, mwVars, dspVars, reqVars, brVars>>

\* Time passes.  The event loop runs a due timer and every ready continuation
\* before it sleeps again, so the clock does not move past a deadline that has
\* not fired nor while a call has a result or a TimeoutError to pick up.
MavTick ==
  /\ mav_now < MaxTime
  /\ \A i \in CallIds :
       /\ mav_calls[i].pc \notin {"resolved", "cancelled"}
       /\ mav_calls[i].pc = "awaiting" => mav_now < mav_calls[i].deadline
  /\ mav_now' = mav_now + 1
  /\ UNCHANGED <<mav_ignored, mav_master, mav_pending, mav_calls, detVars, misVars,
                 entVars, mwVars, dspVars, reqVars, brVars>>

NextMavlink ==
  \/ MavConnect
  \/ \E i \in CallIds, c \in Commands, timeout \in 1..MaxTimeout : MavSend(i, c, timeout)
  \/ \E c \in Commands, result \in AckResults : MavHandleCommandAck(c, result)
  \/ \E i \in CallIds : MavReturnResult(i)
  \/ \E i \in CallIds : MavTimeoutFires(i)
  \/ \E i \in CallIds : MavTimeoutReturns(i)
  \/ MavTick

(* ---------------------------- MissionManager --------------------------- *)
\* MissionItem: command, x and y (degrees, here in units of 1e-8 degree), z and
\* param1..param3.
MissionItem(command, x, y, z, param1) ==
  [command |-> command, x |-> x, y |-> y, z |-> z,
   param1 |-> param1, param2 |-> 0, param3 |-> 0]

\* A waypoint, a takeoff and a fence vertex, with coordinates that are not
\* multiples of 1e-7 degree on either side of zero.
ItemPool ==
  {MissionItem(16, 15, 0 - 15, 10, 0), MissionItem(22, 0 - 27, 38, 20, 5)}

RECURSIVE ItemLists(_)
ItemLists(n) ==
  IF n = 0 THEN {<<>>}
  ELSE LET shorter == ItemLists(n - 1)
       IN shorter \cup {Append(l, it) : l \in {s \in shorter : Len(s) = n - 1}, it \in ItemPool}

\* The mission types upload_mission uploads, in its order.
MAV_MISSION_TYPE_MISSION == 0
MAV_MISSION_TYPE_FENCE == 1
MAV_MISSION_TYPE_RALLY == 2

\* An upload that sends the fence before the mission items.
UploadOrderFenceFirst ==
  <<MAV_MISSION_TYPE_FENCE, MAV_MISSION_TYPE_MISSION, MAV_MISSION_TYPE_RALLY>>

UploadOrder ==
  <<MAV_MISSION_TYPE_MISSION, MAV_MISSION_TYPE_FENCE, MAV_MISSION_TYPE_RALLY>>

MissionTypes == {UploadOrder[k] : k \in 1..Len(UploadOrder)}

\* A mission type of a MISSION_REQUEST that the manager never uploads.
UnknownMissionType == 3

\* A waypoint of a plan: 'speed' and 'roi' are optional keys, 'type' defaults
\* to WAYPOINT, 'hold_time' to 0.
Waypoint(lat, lon, alt, hold_time, type) ==
  [lat |-> lat, lon |-> lon, alt |-> alt, hold_time |-> hold_time, type |-> type,
   has_speed |-> FALSE, speed |-> 0, has_roi |-> FALSE,
   roi |-> [lat |-> 0, lon |-> 0, alt |-> 0]]

\* plan.get('fence', {}) of a plan without a fence
NoFence == [enabled |-> FALSE, polygon |-> <<>>]

\* Plans shaped like those of the repository's tests: two plain waypoints,
\* the second with a hold time; no waypoints, an enabled fence of three
\* vertices and one rally point; one TAKEOFF waypoint with speed and roi; one
\* waypoint, a fence that is disabled but has a polygon of two vertices, and
\* one rally point; and a plan with nothing in it.
\* Coordinates are in units of 1e-8 degree.
SamplePlan ==
  [waypoints |-> <<Waypoint(15, 0 - 15, 20, 0, "WAYPOINT"),
                   Waypoint(0 - 27, 38, 30, 5, "WAYPOINT")>>,
   fence |-> NoFence, rally_points |-> <<>>]

FullPlan ==
  [waypoints |-> <<>>,
   fence |-> [enabled |-> TRUE,
              polygon |-> <<[lat |-> 0 - 10, lon |-> 10], [lat |-> 0 - 20, lon |-> 20],
                            [lat |-> 0 - 30, lon |-> 30]>>],
   rally_points |-> <<[lat |-> 0 - 5, lon |-> 5, alt |-> 50]>>]

ComplexPlan ==
  [waypoints |-> <<[Waypoint(0 - 11, 41, 20, 0, "TAKEOFF") EXCEPT
                      !.has_speed = TRUE, !.speed = 15, !.has_roi = TRUE,
                      !.roi = [lat |-> 0 - 22, lon |-> 42, alt |-> 0]]>>,
   fence |-> NoFence, rally_points |-> <<>>]

MixedPlan ==
  [waypoints |-> <<Waypoint(0 - 35, 49, 20, 0, "LAND")>>,
   fence |-> [enabled |-> FALSE,
              polygon |-> <<[lat |-> 12, lon |-> 0 - 12], [lat |-> 14, lon |-> 0 - 14]>>],
   rally_points |-> <<[lat |-> 7, lon |-> 0 - 7, alt |-> 40]>>]

EmptyPlan == [waypoints |-> <<>>, fence |-> NoFence, rally_points |-> <<>>]

\* A route of two waypoints: a plain one with a speed, then an RTL with both a
\* speed and a region of interest.
RoutePlan ==
  [waypoints |-> <<[Waypoint(33, 0 - 44, 25, 2, "WAYPOINT") EXCEPT
                      !.has_speed = TRUE, !.speed = 8],
                   [Waypoint(0 - 46, 57, 0, 0, "RTL") EXCEPT
                      !.has_speed = TRUE, !.speed = 12, !.has_roi = TRUE,
                      !.roi = [lat |-> 0 - 48, lon |-> 59, alt |-> 3]]>>,
   fence |-> NoFence, rally_points |-> <<>>]

PlanPool == {SamplePlan, FullPlan, ComplexPlan, MixedPlan, EmptyPlan, RoutePlan}

\* The command of a waypoint's own item: NAV_WAYPOINT unless its type says
\* TAKEOFF, LAND or RTL.
WaypointCommand(wp_type) ==
  IF wp_type = "TAKEOFF" THEN 22
  ELSE IF wp_type = "LAND" THEN 21
  ELSE IF wp_type = "RTL" THEN 20
  ELSE 16

\* A conversion that puts the region of interest before the speed change.
WaypointItemsRoiFirst(wp) ==
  (IF wp.has_roi
   THEN <<MissionItem(201, wp.roi.lat, wp.roi.lon, wp.roi.alt, 0)>>
   ELSE <<>>)
  \o (IF wp.has_speed
      THEN <<[MissionItem(178, 0, 0, 0, 1) EXCEPT !.param2 = wp.speed, !.param3 = 0 - 1]>>
      ELSE <<>>)
  \o <<MissionItem(WaypointCommand(wp.type), wp.lat, wp.lon, wp.alt, wp.hold_time)>>

\* The items convert_plan_to_items appends for one waypoint: an optional
\* DO_CHANGE_SPEED, an optional DO_SET_ROI, then the waypoint's own item.
WaypointItems(wp) ==
  (IF wp.has_speed
   THEN <<[MissionItem(178, 0, 0, 0, 1) EXCEPT !.param2 = wp.speed, !.param3 = 0 - 1]>>
   ELSE <<>>)
  \o (IF wp.has_roi
      THEN <<MissionItem(201, wp.roi.lat, wp.roi.lon, wp.roi.alt, 0)>>
      ELSE <<>>)
  \o <<MissionItem(WaypointCommand(wp.type), wp.lat, wp.lon, wp.alt, wp.hold_time)>>

RECURSIVE ItemsOfWaypoints(_)
ItemsOfWaypoints(waypoints) ==
  IF waypoints = <<>> THEN <<>>
  ELSE WaypointItems(Head(waypoints)) \o ItemsOfWaypoints(Tail(waypoints))

\* convert_plan_to_items(plan)
ConvertPlanToItems(plan) == ItemsOfWaypoints(plan.waypoints)

\* convert_fence_to_items(plan): nothing for a fence that is neither enabled
\* nor has a polygon, otherwise one vertex item per polygon vertex.
ConvertFenceToItems(plan) ==
  LET polygon == plan.fence.polygon
  IN IF ~plan.fence.enabled /\ Len(polygon) = 0 THEN <<>>
     ELSE [k \in 1..Len(polygon) |->
             MissionItem(5001, polygon[k].lat, polygon[k].lon, 0, Len(polygon))]

\* convert_rally_to_items(plan)
ConvertRallyToItems(plan) ==
  [k \in 1..Len(plan.rally_points) |->
     MissionItem(5100, plan.rally_points[k].lat, plan.rally_points[k].lon,
                 plan.rally_points[k].alt, 0)]

\* The list upload_mission hands to _upload_list for a mission type.
PlanItems(plan, mission_type) ==
  IF mission_type = MAV_MISSION_TYPE_MISSION THEN ConvertPlanToItems(plan)
  ELSE IF mission_type = MAV_MISSION_TYPE_FENCE THEN ConvertFenceToItems(plan)
  ELSE ConvertRallyToItems(plan)

\* int(v * 1e7) for v given in units of 1e-8 degree: truncation towards zero.
IntE7(v8) == IF v8 >= 0 THEN v8 \div 10 ELSE 0 - ((0 - v8) \div 10)

MAV_FRAME_GLOBAL_RELATIVE_ALT == 3

\* mission_count_send(target_system, target_component, count, mission_type)
CountMessage(count, mission_type) ==
  [msg |-> "MISSION_COUNT", count |-> count, mission_type |-> mission_type]

\* An item message that always names mission type 0.
ItemMessageTypeZero(seq, item, mission_type) ==
  [msg |-> "MISSION_ITEM_INT", seq |-> seq, frame |-> MAV_FRAME_GLOBAL_RELATIVE_ALT,
   command |-> item.command, current |-> 0, autocontinue |-> 1,
   param1 |-> item.param1, param2 |-> item.param2, param3 |-> item.param3,
   param4 |-> 0, x |-> IntE7(item.x), y |-> IntE7(item.y), z |-> item.z,
   mission_type |-> 0]

\* mission_item_int_send(..., seq, frame, command, 0, 1, p1, p2, p3, 0,
\*                       int(x * 1e7), int(y * 1e7), z, mission_type)
ItemMessage(seq, item, mission_type) ==
  [msg |-> "MISSION_ITEM_INT", seq |-> seq, frame |-> MAV_FRAME_GLOBAL_RELATIVE_ALT,
   command |-> item.command, current |-> 0, autocontinue |-> 1,
   param1 |-> item.param1, param2 |-> item.param2, param3 |-> item.param3,
   param4 |-> 0, x |-> IntE7(item.x), y |-> IntE7(item.y), z |-> item.z,
   mission_type |-> mission_type]

InitMission ==
  /\ mis_items = [ty \in MissionTypes |-> <<>>]
  /\ mis_uploaded = [ty \in MissionTypes |-> <<>>]
  /\ mis_last = [op |-> "none"]
  /\ mis_sent = <<>>

\* current_mission_items after _upload_list(items, mission_type) run on stored
StoredAfterUpload(stored, items, mission_type) ==
  IF Len(items) = 0 THEN stored ELSE [stored EXCEPT ![mission_type] = items]

\* The messages _upload_list(items, mission_type) sends.
SentByUpload(items, mission_type) ==
  IF Len(items) = 0 THEN <<>> ELSE <<CountMessage(Len(items), mission_type)>>

\* _upload_list(items, mission_type): nothing for an empty list; otherwise the
\* list is stored under its type and one MISSION_COUNT is sent.
UploadList(items, mission_type) ==
  /\ mis_last' = [op |-> "_upload_list", items |-> items, mission_type |-> mission_type]
  /\ mis_items' = StoredAfterUpload(mis_items, items, mission_type)
  /\ mis_uploaded' = StoredAfterUpload(mis_uploaded, items, mission_type)
  /\ mis_sent' = SentByUpload(items, mission_type)
  /\ UNCHANGED <<detVars, mavVars, entVars, mwVars, dspVars, reqVars, brVars>>

\* An upload_mission that keeps the lists of the previous plan.
ItemsKeptOnUpload == mis_items

\* self.current_mission_items = {}
ClearedItems == [ty \in MissionTypes |-> <<>>]

\* current_mission_items after the first n _upload_list calls of
\* upload_mission(plan).
RECURSIVE StoredAfterUploads(_, _, _)
StoredAfterUploads(stored, plan, n) ==
  IF n = 0 THEN stored
  ELSE StoredAfterUpload(StoredAfterUploads(stored, plan, n - 1),
                         PlanItems(plan, UploadOrder[n]), UploadOrder[n])

\* The messages those calls send, in order.
RECURSIVE SentByUploads(_, _)
SentByUploads(plan, n) ==
  IF n = 0 THEN <<>>
  ELSE SentByUploads(plan, n - 1)
         \o SentByUpload(PlanItems(plan, UploadOrder[n]), UploadOrder[n])

\* upload_mission(plan): clears current_mission_items, then converts and
\* uploads the mission items, the fence and the rally points.  dropped is the
\* set of types that had a stored list when the call was made and for which
\* the plan has no items.
UploadMission(plan) ==
  /\ mis_last' = [op |-> "upload_mission", plan |-> plan,
                  dropped |-> {ty \in MissionTypes :
                                 mis_items[ty] # <<>> /\ PlanItems(plan, ty) = <<>>}]
  /\ mis_items' = StoredAfterUploads(ClearedItems, plan, Len(UploadOrder))
  /\ mis_uploaded' = StoredAfterUploads([ty \in MissionTypes |-> <<>>], plan,
                                        Len(UploadOrder))
  /\ mis_sent' = SentByUploads(plan, Len(UploadOrder))
  /\ UNCHANGED <<detVars, mavVars, entVars, mwVars, dspVars, reqVars, brVars>>

\* current_mission_items.get(mission_type)
StoredItems(mission_type) ==
  IF mission_type \in DOMAIN mis_items THEN mis_items[mission_type] ELSE <<>>

\* An index that answers a request past the end with the last item.
RequestedIndexClamped(seq, items) ==
  IF Len(items) = 0 THEN 0
  ELSE IF seq < Len(items) THEN seq + 1 ELSE Len(items)

\* 'if items and seq < len(items)': the position in items of the item a
\* request for seq is answered with, 0 when it is not answered.
RequestedIndex(seq, items) ==
  IF Len(items) > 0 /\ seq < Len(items) THEN seq + 1 ELSE 0

\* on_mavlink_message(MISSION_REQUEST seq, mission_type); has_type is FALSE for
\* a MAVLink 1 request, which has no mission_type field and is read as type 0.
\* seq is the unsigned 16 bit field of the message.
OnMissionRequest(seq, has_type, req_type) ==
  LET mission_type == IF has_type THEN req_type ELSE 0
      items == StoredItems(mission_type)
      index == RequestedIndex(seq, items)
  IN /\ mis_last' = [op |-> "MISSION_REQUEST", seq |-> seq, mission_type |-> mission_type]
     /\ mis_sent' = IF index > 0
                    THEN <<ItemMessage(seq, items[index], mission_type)>>
                    ELSE <<>>
     /\ UNCHANGED <<mis_items, mis_uploaded, detVars, mavVars, entVars, mwVars, dspVars, reqVars, brVars>>

NextMission ==
  \/ \E items \in ItemLists(MaxItems), ty \in MissionTypes : UploadList(items, ty)
  \/ \E plan \in PlanPool : UploadMission(plan)
  \/ \E seq \in 0..MaxItems, has_type \in BOOLEAN,
        ty \in MissionTypes \cup {UnknownMissionType} :
       OnMissionRequest(seq, has_type, ty)

(* -------------------------- SessionDetector ---------------------------- *)
\* SessionDetector.config
MinDurationSeconds == 30
MinDistanceMeters == 10
TimeoutAfterDisarmSec == 600
\* R * pi / 180 for R = 6371000: metres per degree of a great circle.
HaversineMetersPerDegree == 111195

\* _haversine_distance in mm, coordinates in micro-degrees.  The modelled
\* coordinates lie within a milli-degree of the equator and of each other,
\* where cos(phi) is 1 and the great-circle distance is the planar one up to
\* parts in 10^9.
HaversineMm(lat1, lon1, lat2, lon2) ==
  LET dlat == lat2 - lat1
      dlon == lon2 - lon1
      r == ISqrt((dlat * dlat + dlon * dlon) * 10000)
  IN r + (r * (HaversineMetersPerDegree - 100000)) \div 100000

\* check_mission_start raises TypeError when it gets to the distance with a
\* coordinate that is None (math.radians(None)).
CheckMissionStartRaises(start, current) ==
  /\ current.armed = "true"
  /\ current.timestamp - start.timestamp >= MinDurationSeconds
  /\ (start.lat = NoneVal \/ start.lon = NoneVal \/
      current.lat = NoneVal \/ current.lon = NoneVal)

\* check_mission_start(start_sample, current_sample), when it returns.
CheckMissionStart(start, current) ==
  /\ current.armed = "true"
  /\ current.timestamp - start.timestamp >= MinDurationSeconds
  /\ HaversineMm(start.lat, start.lon, current.lat, current.lon)
       >= MinDistanceMeters * 1000

(* ------------------------- DroneEntityWorkflow ------------------------- *)
\* The sample dicts signalled to the entity: a timestamp, and any of armed and
\* a position fix.
EntityTimestamps == {0, 2 * TickSec}
EntityPositions ==
  {[lat |-> NoneVal, lon |-> NoneVal, alt |-> NoneVal],
   [lat |-> 0, lon |-> 0, alt |-> 10],
   [lat |-> MaxGrid * GridUDeg, lon |-> MaxGrid * GridUDeg, alt |-> 10]}
EntitySamples ==
  {[type |-> IF p.lat = NoneVal THEN "HEARTBEAT" ELSE "GLOBAL_POSITION_INT",
    timestamp |-> ts, armed |-> ar, lat |-> p.lat, lon |-> p.lon, alt |-> p.alt] :
     ts \in EntityTimestamps, ar \in {"none", "true", "false"}, p \in EntityPositions}

\* The loop of signal_telemetry: every field of incoming that is not None
\* overwrites the field of target.
MergeFields(target, incoming) ==
  [type |-> incoming.type,
   timestamp |-> IF incoming.timestamp # NoneVal THEN incoming.timestamp ELSE target.timestamp,
   armed |-> IF incoming.armed # "none" THEN incoming.armed ELSE target.armed,
   lat |-> IF incoming.lat # NoneVal THEN incoming.lat ELSE target.lat,
   lon |-> IF incoming.lon # NoneVal THEN incoming.lon ELSE target.lon,
   alt |-> IF incoming.alt # NoneVal THEN incoming.alt ELSE target.alt]

\* _latest_telemetry after signal_telemetry(incoming)
MergedTelemetry(latest, incoming) ==
  IF latest = NoSample THEN incoming ELSE MergeFields(latest, incoming)

\* _status after signal_telemetry, from the merged sample
StatusOf(merged) == IF merged.armed = "true" THEN "ONLINE_ARMED" ELSE "ONLINE_IDLE"

\* A recorder started under a session id that is always the same.
SessionRecorderSameId(n) == [workflow |-> "SessionRecordingWorkflow", session |-> 1]

\* The child started for the n-th session: session_id = f"sess-{workflow.uuid()}"
SessionRecorder(n) == [workflow |-> "SessionRecordingWorkflow", session |-> n]

InitEntity ==
  /\ ent_pc = "idle"
  /\ ent_status = "OFFLINE"
  /\ ent_exit = FALSE
  /\ ent_latest = NoSample
  /\ ent_start = NoSample
  /\ ent_handle = 0
  /\ ent_children = <<>>
  /\ ent_signals = <<>>
  /\ ent_wait = 0
  /\ ent_wait_ends = <<>>
  /\ ent_known = NoSample
  /\ ent_assigned = <<>>
  /\ ent_history = "none"

\* The workflow takes signals until run returns or fails.
EntityRunning == ent_pc \in {"idle", "disarm_wait"}

\* The record of what has been signalled, after incoming is: known is the
\* one sample signalled before it when the record is "armed_fix".
HistoryAfter(history, known, incoming) ==
  IF history = "none" /\ incoming.armed = "true" /\ incoming.lat # NoneVal
  THEN "armed_fix"
  ELSE IF /\ history = "armed_fix"
          /\ incoming.armed = "true" /\ incoming.lat # NoneVal
          /\ incoming.timestamp - known.timestamp >= MinDurationSeconds
          /\ HaversineMm(known.lat, known.lon, incoming.lat, incoming.lon)
                >= MinDistanceMeters * 1000
  THEN "armed_then_moved"
  ELSE "other"

\* signal_telemetry(sample_dict)
SignalTelemetry(incoming) ==
  /\ EntityRunning
  /\ ent_latest' = MergedTelemetry(ent_latest, incoming)
  /\ ent_status' = StatusOf(ent_latest')
  /\ ent_known' = MergeFields(ent_known, incoming)
  /\ ent_history' = HistoryAfter(ent_history, ent_known, incoming)
  /\ UNCHANGED <<ent_pc, ent_exit, ent_start, ent_handle, ent_children,
                 ent_signals, ent_wait, ent_wait_ends, ent_assigned>>
  /\ UNCHANGED <<detVars, mavVars, misVars, mwVars, dspVars, reqVars, brVars>>

\* exit_entity()
ExitEntity ==
  /\ EntityRunning
  /\ ~ent_exit
  /\ ent_exit' = TRUE
  /\ ent_history' = "other"
  /\ UNCHANGED <<ent_pc, ent_status, ent_latest, ent_start, ent_handle,
                 ent_children, ent_signals, ent_wait, ent_wait_ends, ent_known,
                 ent_assigned>>
  /\ UNCHANGED <<detVars, mavVars, misVars, mwVars, dspVars, reqVars, brVars>>

\* assign_mission(mission_plan): logs the plan id, nothing else.
AssignMission(plan) ==
  /\ EntityRunning
  /\ Len(ent_assigned) < MaxAssign
  /\ ent_assigned' = Append(ent_assigned, plan)
  /\ UNCHANGED <<ent_pc, ent_status, ent_exit, ent_latest, ent_start, ent_handle,
                 ent_children, ent_signals, ent_wait, ent_wait_ends, ent_known>>
  /\ UNCHANGED ent_history
  /\ UNCHANGED <<detVars, mavVars, misVars, mwVars, dspVars, reqVars, brVars>>

\* run, line 150: the wait of line 149 ended with _exit set.
LoopExit ==
  /\ ent_pc = "idle"
  /\ ent_exit
  /\ ent_pc' = "done"
  /\ UNCHANGED <<ent_status, ent_exit, ent_latest, ent_start, ent_handle,
                 ent_children, ent_signals, ent_wait, ent_wait_ends, ent_known,
                 ent_assigned>>
  /\ UNCHANGED ent_history
  /\ UNCHANGED <<detVars, mavVars, misVars, mwVars, dspVars, reqVars, brVars>>

\* _session_start_sample when an armed sample is looked at outside a session
CandidateStart(current) == IF ent_start = NoSample THEN current ELSE ent_start

\* run, lines 153-187: one pass of the loop body up to its next await.  The
\* sample is consumed; outside a session an armed sample starts or keeps the
\* candidate and, once check_mission_start confirms it, the recorder child is
\* started; inside a session a sample that is not armed starts the disarm wait.
LoopIteration ==
  LET current == ent_latest
      armed == current.armed = "true"
      start == CandidateStart(current)
      raises == ent_handle = 0 /\ armed /\ CheckMissionStartRaises(start, current)
      confirmed == ent_handle = 0 /\ armed /\ ~raises /\ CheckMissionStart(start, current)
      disarmed == ent_handle # 0 /\ ~armed
  IN /\ ent_pc = "idle"
     /\ ~ent_exit
     /\ ent_latest # NoSample
     /\ confirmed => Len(ent_children) < MaxSessions
     /\ disarmed => Len(ent_wait_ends) < MaxWaits
     /\ ent_latest' = NoSample
     /\ ent_start' = IF ent_handle # 0 THEN ent_start
                     ELSE IF armed THEN start ELSE NoSample
     /\ ent_children' = IF confirmed
                        THEN Append(ent_children, SessionRecorder(Len(ent_children) + 1))
                        ELSE ent_children
     /\ ent_handle' = IF confirmed THEN Len(ent_children) + 1 ELSE ent_handle
     /\ ent_pc' = IF raises THEN "failed" ELSE IF disarmed THEN "disarm_wait" ELSE "idle"
     /\ ent_wait' = 0
     /\ UNCHANGED <<ent_status, ent_exit, ent_signals, ent_wait_ends, ent_known,
                    ent_assigned>>
     /\ UNCHANGED ent_history
     /\ UNCHANGED <<detVars, mavVars, misVars, mwVars, dspVars, reqVars, brVars>>

\* A disarm wait that only a re-arm ends early.
RearmedOnly == ent_latest # NoSample /\ ent_latest.armed = "true"

\* The condition of the disarm wait, lines 189-190
RearmedOrExit ==
  (ent_latest # NoSample /\ ent_latest.armed = "true") \/ ent_exit

\* run, lines 198-210: the disarm wait ended because its condition held; the
\* loop is left on _exit and goes on otherwise, the sample not consumed.
DisarmWaitWakes ==
  /\ ent_pc = "disarm_wait"
  /\ RearmedOrExit
  /\ ent_pc' = IF ent_exit THEN "done" ELSE "idle"
  /\ ent_wait_ends' = Append(ent_wait_ends, IF ent_exit THEN "exit" ELSE "rearm")
  /\ ent_wait' = 0
  /\ UNCHANGED <<ent_status, ent_exit, ent_latest, ent_start, ent_handle,
                 ent_children, ent_signals, ent_known, ent_assigned>>
  /\ UNCHANGED ent_history
  /\ UNCHANGED <<detVars, mavVars, misVars, mwVars, dspVars, reqVars, brVars>>

\* A timeout branch that keeps the session handle.
HandleKeptAfterTimeout == ent_handle

\* _active_session_handle after the timeout branch, line 196
HandleAfterTimeout == 0

\* run, lines 192-197: the timeout of the disarm wait fired; the recorder is
\* signalled end_custom_session, handle and start sample are cleared.
DisarmWaitTimeout ==
  /\ ent_pc = "disarm_wait"
  /\ ent_wait = TimeoutAfterDisarmSec
  /\ ent_signals' = Append(ent_signals,
                           [to |-> ent_handle, signal |-> "end_custom_session"])
  /\ ent_handle' = HandleAfterTimeout
  /\ ent_start' = NoSample
  /\ ent_pc' = "idle"
  /\ ent_wait_ends' = Append(ent_wait_ends, "timeout")
  /\ ent_wait' = 0
  /\ UNCHANGED <<ent_status, ent_exit, ent_latest, ent_children, ent_known,
                 ent_assigned>>
  /\ UNCHANGED ent_history
  /\ UNCHANGED <<detVars, mavVars, misVars, mwVars, dspVars, reqVars, brVars>>

\* Workflow time passes during the disarm wait: not while the condition holds
\* (the wait is woken in the activation that made it true) and not beyond the
\* timer of the wait.
EntityTick ==
  /\ ent_pc = "disarm_wait"
  /\ ~RearmedOrExit
  /\ ent_wait < TimeoutAfterDisarmSec
  /\ ent_wait' = IF ent_wait + WaitStepSec < TimeoutAfterDisarmSec
                 THEN ent_wait + WaitStepSec ELSE TimeoutAfterDisarmSec
  /\ UNCHANGED <<ent_pc, ent_status, ent_exit, ent_latest, ent_start, ent_handle,
                 ent_children, ent_signals, ent_wait_ends, ent_known, ent_assigned>>
  /\ UNCHANGED ent_history
  /\ UNCHANGED <<detVars, mavVars, misVars, mwVars, dspVars, reqVars, brVars>>

PlanIds == {"plan-a", "plan-b"}

NextEntity ==
  \/ \E incoming \in EntitySamples : SignalTelemetry(incoming)
  \/ ExitEntity
  \/ \E plan \in PlanIds : AssignMission(plan)
  \/ LoopExit
  \/ LoopIteration
  \/ DisarmWaitWakes
  \/ DisarmWaitTimeout
  \/ EntityTick

(* --------------------------- MissionWorkflow --------------------------- *)
\* mission_plan as run reads it: whether it is a dict with non-empty
\* constraints, and how many waypoints it has.
Plans == [constraints : BOOLEAN, waypoints : 0..MaxWaypoints]

\* The commands of run, in program order.
MissionCommands == <<"ARM", "TAKEOFF", "LAND">>

\* A check_preflight that is retried like the command activities.
PreflightRetried == MaxAttempts + 1

\* RetryPolicy.maximum_attempts of the activities; 0 stands for no limit, the
\* value an activity started without a retry_policy gets.
PreflightMaximumAttempts == 1
SendCommandMaximumAttempts == 0

\* The retry policy gives up after this failed attempt.
AttemptsExhausted(failed, maximum) == maximum # 0 /\ failed >= maximum

InitWorkflow ==
  /\ mw_pc = "start"
  /\ mw_plan = [constraints |-> FALSE, waypoints |-> 0]
  /\ mw_mqtt = FALSE
  /\ mw_failures = 0
  /\ mw_preflights = 0
  /\ mw_log = <<>>
  /\ mw_vehicle = [c \in {"ARM", "TAKEOFF", "LAND"} |-> "none"]
  /\ mw_result = "none"

\* run, lines 19-31, started with mission_plan on a worker whose main did
\* (mqtt) or did not get an MQTT connection: the plan is read; check_preflight
\* is scheduled only for non-empty constraints.
WorkflowStarts(plan, mqtt) ==
  /\ mw_pc = "start"
  /\ mw_plan' = plan
  /\ mw_mqtt' = mqtt
  /\ mw_pc' = IF plan.constraints THEN "preflight" ELSE "ARM"
  /\ UNCHANGED <<mw_failures, mw_preflights, mw_log, mw_vehicle, mw_result>>
  /\ UNCHANGED <<detVars, mavVars, misVars, entVars, dspVars, reqVars, brVars>>

\* An attempt of check_preflight returns True.
PreflightPasses ==
  /\ mw_pc = "preflight"
  /\ mw_preflights' = mw_preflights + 1
  /\ mw_pc' = "ARM"
  /\ mw_failures' = 0
  /\ UNCHANGED <<mw_plan, mw_mqtt, mw_log, mw_vehicle, mw_result>>
  /\ UNCHANGED <<detVars, mavVars, misVars, entVars, dspVars, reqVars, brVars>>

\* An attempt of check_preflight raises (battery too low, shadow not
\* readable) or runs into start_to_close_timeout; when the retry policy is
\* exhausted the ActivityError leaves run.
PreflightFails ==
  /\ mw_pc = "preflight"
  /\ mw_failures < MaxAttempts
  /\ mw_preflights' = mw_preflights + 1
  /\ IF AttemptsExhausted(mw_failures + 1, PreflightMaximumAttempts)
     THEN mw_pc' = "failed" /\ mw_result' = "failed" /\ mw_failures' = 0
     ELSE mw_failures' = mw_failures + 1 /\ UNCHANGED <<mw_pc, mw_result>>
  /\ UNCHANGED <<mw_plan, mw_mqtt, mw_log, mw_vehicle>>
  /\ UNCHANGED <<detVars, mavVars, misVars, entVars, dspVars, reqVars, brVars>>

IsCommandStep == mw_pc \in {"ARM", "TAKEOFF", "LAND"}

\* The step after a command step has returned.
StepAfter(pc) ==
  IF pc = "ARM" THEN "TAKEOFF"
  ELSE IF pc = "TAKEOFF" THEN (IF mw_plan.waypoints > 0 THEN "waypoints" ELSE "LAND")
  ELSE "done"

\* The sleeps taken so far.
SleepsTaken == Cardinality({k \in 1..Len(mw_log) : mw_log[k] = "sleep"})

\* An attempt of send_command publishes the command and returns; run goes on
\* to its next step, or returns 'Mission Complete' after LAND.
SendCommandSucceeds ==
  /\ IsCommandStep
  /\ mw_mqtt
  /\ mw_log' = Append(mw_log, mw_pc)
  /\ mw_vehicle' = [mw_vehicle EXCEPT ![mw_pc] = "none"]
  /\ mw_pc' = StepAfter(mw_pc)
  /\ mw_result' = IF mw_pc = "LAND" THEN "Mission Complete" ELSE mw_result
  /\ mw_failures' = 0
  /\ UNCHANGED <<mw_plan, mw_mqtt, mw_preflights>>
  /\ UNCHANGED <<detVars, mavVars, misVars, entVars, dspVars, reqVars, brVars>>

\* What a failed attempt of a command step does to run.
AfterFailedAttempt ==
  IF AttemptsExhausted(mw_failures + 1, SendCommandMaximumAttempts)
  THEN mw_pc' = "failed" /\ mw_result' = "failed" /\ mw_failures' = 0
  ELSE mw_failures' = mw_failures + 1 /\ UNCHANGED <<mw_pc, mw_result>>

\* An attempt of send_command raises before publishing: mqtt_connection is
\* None (activities.py:18-19).
SendCommandRaises ==
  /\ IsCommandStep
  /\ ~mw_mqtt
  /\ mw_failures < MaxAttempts
  /\ AfterFailedAttempt
  /\ UNCHANGED <<mw_plan, mw_mqtt, mw_preflights, mw_log, mw_vehicle>>
  /\ UNCHANGED <<detVars, mavVars, misVars, entVars, dspVars, reqVars, brVars>>

\* An attempt of send_command publishes and then fails: future.result()
\* raises, or the attempt outlives start_to_close_timeout.
SendCommandFailsAfterPublish ==
  /\ IsCommandStep
  /\ mw_mqtt
  /\ mw_failures < MaxAttempts
  /\ mw_log' = Append(mw_log, mw_pc)
  /\ mw_vehicle' = [mw_vehicle EXCEPT ![mw_pc] = "none"]
  /\ AfterFailedAttempt
  /\ UNCHANGED <<mw_plan, mw_mqtt, mw_preflights>>
  /\ UNCHANGED <<detVars, mavVars, misVars, entVars, dspVars, reqVars, brVars>>

\* run, lines 54-56: one workflow.sleep per waypoint.
WaypointSleep ==
  /\ mw_pc = "waypoints"
  /\ mw_log' = Append(mw_log, "sleep")
  /\ mw_pc' = IF SleepsTaken + 1 >= mw_plan.waypoints THEN "LAND" ELSE "waypoints"
  /\ UNCHANGED <<mw_plan, mw_mqtt, mw_failures, mw_preflights, mw_vehicle,
                 mw_result>>
  /\ UNCHANGED <<detVars, mavVars, misVars, entVars, dspVars, reqVars, brVars>>

\* The commands published so far.
Published == {mw_log[k] : k \in 1..Len(mw_log)} \ {"sleep"}

\* bridge.on_command_received for a published command: the vehicle's
\* acknowledgment decides success or failed, and the bridge publishes that as
\* a status message.
VehicleReports(c, status) ==
  /\ c \in Published
  /\ mw_vehicle[c] = "none"
  /\ mw_vehicle' = [mw_vehicle EXCEPT ![c] = status]
  /\ UNCHANGED <<mw_pc, mw_plan, mw_mqtt, mw_failures, mw_preflights, mw_log,
                 mw_result>>
  /\ UNCHANGED <<detVars, mavVars, misVars, entVars, dspVars, reqVars, brVars>>

NextWorkflow ==
  \/ \E plan \in Plans, mqtt \in BOOLEAN : WorkflowStarts(plan, mqtt)
  \/ PreflightPasses
  \/ PreflightFails
  \/ SendCommandSucceeds
  \/ SendCommandRaises
  \/ SendCommandFailsAfterPublish
  \/ WaypointSleep
  \/ \E c \in {"ARM", "TAKEOFF", "LAND"}, status \in {"success", "failed"} :
       VehicleReports(c, status)

(* --------------------------- FleetDispatcher --------------------------- *)
Drones == {"drone-1", "drone-2"}

\* The 'things' of a search_index response: any selection of the drones, in
\* any order.
ThingLists ==
  {<<>>} \cup {<<[thingName |-> d]>> : d \in Drones}
         \cup {<<[thingName |-> pair[1]], [thingName |-> pair[2]]>> :
                 pair \in {p \in Drones \X Drones : p[1] # p[2]}}

\* What self.iot.search_index does: it raises, or it returns a response.
IndexResponses ==
  {[failed |-> TRUE, things |-> <<>>]}
    \cup {[failed |-> FALSE, things |-> things] : things \in ThingLists}

\* A query failure reported as no drone being available.
QueryErrorAsNoDrone == "NoDroneAvailableError"

\* raise RuntimeError(f"Failed to query fleet index: {e}")
QueryError == "RuntimeError"

\* raise NoDroneAvailableError("No drones available matching criteria")
NoDroneError == "NoDroneAvailableError"

\* A dispatcher that selects the last thing of the response.
SelectedDroneLast(things) == things[Len(things)].thingName

\* selected_drone = things[0]['thingName']
SelectedDrone(things) == things[1].thingName

\* find_drone: the error it raises ("none": it returns) and the drone it returns.
FindDrone(response) ==
  IF response.failed THEN [raised |-> QueryError, drone |-> "none"]
  ELSE IF response.things = <<>> THEN [raised |-> NoDroneError, drone |-> "none"]
  ELSE [raised |-> "none", drone |-> SelectedDrone(response.things)]

\* f"entity-{drone_id}"
EntityWorkflowId(drone_id) == <<"entity-", drone_id>>

InitDispatcher ==
  /\ dsp_calls = <<>>
  /\ dsp_signals = <<>>

\* No dispatch_mission call is waiting for its signal call to complete.
DispatcherIdle ==
  IF dsp_calls = <<>> THEN TRUE ELSE dsp_calls[Len(dsp_calls)].outcome # "pending"

\* dispatch_mission(mission_plan) up to its await: find_drone queries the
\* index and raises or selects a drone; assign_mission takes the handle of the
\* drone's entity workflow and calls handle.signal.  entity_status is what the
\* entity holds at that moment, which the dispatcher does not read.
DispatchMission(plan, response, entity_status) ==
  /\ DispatcherIdle
  /\ Len(dsp_calls) < MaxDispatches
  /\ LET found == FindDrone(response)
         call == [plan |-> plan, response |-> response,
                  sent_before |-> Len(dsp_signals)]
     IN IF found.raised # "none"
        THEN /\ entity_status = "IDLE"
             /\ dsp_calls' = Append(dsp_calls,
                    [outcome |-> "raised", value |-> found.raised,
                     drone |-> "none", entity_status |-> "none"] @@ call)
             /\ UNCHANGED dsp_signals
        ELSE /\ dsp_calls' = Append(dsp_calls,
                    [outcome |-> "pending", value |-> "none",
                     drone |-> found.drone, entity_status |-> entity_status] @@ call)
             /\ dsp_signals' = Append(dsp_signals,
                    [workflow_id |-> EntityWorkflowId(found.drone),
                     signal |-> "assign_mission", arg |-> plan])
  /\ UNCHANGED <<detVars, mavVars, misVars, entVars, mwVars, reqVars, brVars>>

\* handle.signal completed: assign_mission returns drone_id, and
\* dispatch_mission returns it.
SignalReturns ==
  /\ ~DispatcherIdle
  /\ dsp_calls' = [dsp_calls EXCEPT ![Len(dsp_calls)] =
        [@ EXCEPT !.outcome = "returned", !.value = dsp_calls[Len(dsp_calls)].drone]]
  /\ UNCHANGED <<dsp_signals, detVars, mavVars, misVars, entVars, mwVars, reqVars, brVars>>

\* handle.signal raised (the service could not be reached or knows no such
\* workflow): nothing catches the error, dispatch_mission raises it.
SignalRaises ==
  /\ ~DispatcherIdle
  /\ dsp_calls' = [dsp_calls EXCEPT ![Len(dsp_calls)] =
        [@ EXCEPT !.outcome = "raised", !.value = "RPCError"]]
  /\ UNCHANGED <<dsp_signals, detVars, mavVars, misVars, entVars, mwVars, reqVars, brVars>>

NextDispatcher ==
  \/ \E plan \in PlanIds, response \in IndexResponses,
        entity_status \in {"IDLE", "BUSY"} :
       DispatchMission(plan, response, entity_status)
  \/ SignalReturns
  \/ SignalRaises

(* --------------------------- specifications ---------------------------- *)
(* ----------------------- MissionRequestWorkflow ------------------------- *)
\* A retry policy with a bounded number of attempts.
FindMaximumAttemptsBounded == MaxFinds

\* maximum_attempts of the retry policy of find_available_drone: not set,
\* which Temporal reads as 0, retry without limit.
FindMaximumAttempts == 0

\* The activity find_available_drone on one answer of the fleet index: it
\* raises RuntimeError when the query fails or lists no thing, and returns the
\* first thing's name otherwise.
FindAvailableDrone(response) ==
  IF response.failed \/ Len(response.things) = 0
  THEN [raised |-> TRUE, drone |-> "none"]
  ELSE [raised |-> FALSE, drone |-> response.things[1].thingName]

\* The fleet index lists a drone.
Available == ~FindAvailableDrone(req_index).raised

InitRequest ==
  /\ req_pc = "start"
  /\ req_plan = "none"
  /\ req_index = [failed |-> FALSE, things |-> <<>>]
  /\ req_busy = {}
  /\ req_finds = 0
  /\ req_drone = "none"
  /\ req_assigns = 0
  /\ req_signals = <<>>
  /\ req_result = "none"

RequestRunning == req_pc \in {"start", "searching", "assigning"}

\* The fleet index comes to answer differently.
ReqIndexChanges(response) ==
  /\ RequestRunning
  /\ response # req_index
  /\ req_index' = response
  /\ UNCHANGED <<req_pc, req_plan, req_busy, req_finds, req_drone, req_assigns,
                 req_signals, req_result>>
  /\ UNCHANGED <<detVars, mavVars, misVars, entVars, mwVars, dspVars, brVars>>

\* A drone's entity takes up or finishes other work.
ReqEntityChanges(drone_id) ==
  /\ RequestRunning
  /\ req_busy' = IF drone_id \in req_busy THEN req_busy \ {drone_id}
                 ELSE req_busy \cup {drone_id}
  /\ UNCHANGED <<req_pc, req_plan, req_index, req_finds, req_drone, req_assigns,
                 req_signals, req_result>>
  /\ UNCHANGED <<detVars, mavVars, misVars, entVars, mwVars, dspVars, brVars>>

\* 1. mission_plan = await execute_activity("plan_mission", ...)
ReqPlanMission(plan) ==
  /\ req_pc = "start"
  /\ req_plan' = plan
  /\ req_pc' = "searching"
  /\ UNCHANGED <<req_index, req_busy, req_finds, req_drone, req_assigns,
                 req_signals, req_result>>
  /\ UNCHANGED <<detVars, mavVars, misVars, entVars, mwVars, dspVars, brVars>>

\* An attempt of find_available_drone raises: Temporal schedules the next
\* attempt unless the retry policy's maximum_attempts is reached, and then the
\* workflow fails with the activity's error.
ReqFindRaises ==
  /\ req_pc = "searching"
  /\ req_finds < MaxFinds
  /\ FindAvailableDrone(req_index).raised
  /\ req_finds' = req_finds + 1
  /\ IF FindMaximumAttempts # 0 /\ req_finds' >= FindMaximumAttempts
     THEN req_pc' = "failed" /\ req_result' = "ActivityError"
     ELSE UNCHANGED <<req_pc, req_result>>
  /\ UNCHANGED <<req_plan, req_index, req_busy, req_drone, req_assigns, req_signals>>
  /\ UNCHANGED <<detVars, mavVars, misVars, entVars, mwVars, dspVars, brVars>>

\* An attempt of find_available_drone returns: assigned_drone_id is set and
\* the workflow schedules assign_mission_to_drone.
ReqFindReturns ==
  /\ req_pc = "searching"
  /\ ~FindAvailableDrone(req_index).raised
  /\ req_finds' = req_finds + 1
  /\ req_drone' = FindAvailableDrone(req_index).drone
  /\ req_pc' = "assigning"
  /\ UNCHANGED <<req_plan, req_index, req_busy, req_assigns, req_signals, req_result>>
  /\ UNCHANGED <<detVars, mavVars, misVars, entVars, mwVars, dspVars, brVars>>

\* An attempt of assign_mission_to_drone raises before the signal is accepted
\* (Client.connect or handle.signal fails): no retry policy is given, so
\* Temporal's default one schedules the activity again.
ReqAssignRaises ==
  /\ req_pc = "assigning"
  /\ req_assigns < MaxAssignAttempts
  /\ req_assigns' = req_assigns + 1
  /\ UNCHANGED <<req_pc, req_plan, req_index, req_busy, req_finds, req_drone,
                 req_signals, req_result>>
  /\ UNCHANGED <<detVars, mavVars, misVars, entVars, mwVars, dspVars, brVars>>

\* An attempt of assign_mission_to_drone returns: it has signalled
\* assign_mission with the plan to the workflow 'entity-<drone_id>'.  busy
\* notes whether that entity was busy when the signal reached it; the
\* entity's handler logs the plan either way and answers nothing.
ReqAssignReturns ==
  /\ req_pc = "assigning"
  /\ req_assigns' = req_assigns + 1
  /\ req_signals' = Append(req_signals,
        [workflow_id |-> EntityWorkflowId(req_drone), signal |-> "assign_mission",
         arg |-> req_plan, busy |-> req_drone \in req_busy])
  /\ req_pc' = "assigned"
  /\ UNCHANGED <<req_plan, req_index, req_busy, req_finds, req_drone, req_result>>
  /\ UNCHANGED <<detVars, mavVars, misVars, entVars, mwVars, dspVars, brVars>>

\* return "mission_started"
ReqReturn ==
  /\ req_pc = "assigned"
  /\ req_pc' = "done"
  /\ req_result' = "mission_started"
  /\ UNCHANGED <<req_plan, req_index, req_busy, req_finds, req_drone, req_assigns,
                 req_signals>>
  /\ UNCHANGED <<detVars, mavVars, misVars, entVars, mwVars, dspVars, brVars>>

NextRequest ==
  \/ \E response \in IndexResponses : ReqIndexChanges(response)
  \/ \E drone_id \in Drones : ReqEntityChanges(drone_id)
  \/ \E plan \in PlanIds : ReqPlanMission(plan)
  \/ ReqFindRaises
  \/ ReqFindReturns
  \/ ReqAssignRaises
  \/ ReqAssignReturns
  \/ ReqReturn

(* ------------------- CloudBridge.on_command_received -------------------- *)
\* The 'command' of a command message: the three commands that wait for an
\* acknowledgment, START_MISSION (sent without waiting), RTL (a branch that
\* calls mavlink.rtl_async, which MavlinkConnection does not define, as LAND
\* calls land_async) and a command the handler does not know.
BridgeCommands == {"ARM", "DISARM", "TAKEOFF", "START_MISSION", "RTL", "HOVER"}
HandlerIds == 1..MaxCommands

\* timeout of send_command_long_async, which the bridge never overrides.
CommandTimeout == MaxTimeout

\* One run of on_command_received: the command, where it stands, the
\* send_command_long_async calls it made (arm_call: the arm of a TAKEOFF).
NewHandler == [pc |-> "new", cmd |-> "none", arm_call |-> 0, call |-> 0]

InitBridge ==
  /\ br_handlers = [h \in HandlerIds |-> NewHandler]
  /\ br_published = <<>>

\* The send_command_long_async calls a command makes at most.
CallsNeeded(cmd) ==
  IF cmd \in {"ARM", "DISARM"} THEN 1 ELSE IF cmd = "TAKEOFF" THEN 2 ELSE 0

\* Calls not yet made, less those a TAKEOFF that is arming will still make.
FreeCalls ==
  Cardinality({i \in CallIds : mav_calls[i].pc = "new"})
    - Cardinality({h \in HandlerIds : br_handlers[h].pc = "arming"})

NextCall == CHOOSE i \in CallIds : mav_calls[i].pc = "new" /\
                                   \A j \in CallIds : j < i => mav_calls[j].pc # "new"

\* status = {"command": cmd, "status": "success" if success else "failed"};
\* self.mqtt.publish_status(status)
PublishStatus(h, cmd, success) ==
  Append(br_published,
         [handler |-> h, command |-> cmd,
          status |-> IF success THEN "success" ELSE "failed"])

\* No handler has a returned call to pick up: the event loop resumes a
\* handler whose await has finished before it takes the next message or timer.
BrQuiet ==
  \A h \in HandlerIds :
    br_handlers[h].pc \in {"arming", "awaiting"}
      => mav_calls[br_handlers[h].call].pc # "returned"

\* on_command_received(command_data) up to its first await or, where the
\* command awaits nothing, to its end.  ARM and DISARM call
\* send_command_long_async(400, ...); TAKEOFF calls set_mode('GUIDED'), which
\* raises without a connection, and then arm_async; START_MISSION sends
\* without waiting and counts as success; RTL raises AttributeError inside
\* the try; an unknown command is logged.  The last three publish at once.
BrReceive(h, cmd) ==
  /\ br_handlers[h].pc = "new"
  /\ \A g \in HandlerIds : g < h => br_handlers[g].pc # "new"
  /\ BrQuiet
  /\ CallsNeeded(cmd) <= FreeCalls
  /\ IF cmd \in {"ARM", "DISARM"} \/ (cmd = "TAKEOFF" /\ mav_master)
     THEN /\ SendCommandLongAsync(NextCall, 400, CommandTimeout)
          /\ br_handlers' = [br_handlers EXCEPT ![h] =
                [pc |-> IF cmd = "TAKEOFF" THEN "arming" ELSE "awaiting",
                 cmd |-> cmd,
                 arm_call |-> IF cmd = "TAKEOFF" THEN NextCall ELSE 0,
                 call |-> NextCall]]
          /\ UNCHANGED br_published
     ELSE /\ br_handlers' = [br_handlers EXCEPT ![h] =
                [pc |-> "done", cmd |-> cmd, arm_call |-> 0, call |-> 0]]
          /\ br_published' = PublishStatus(h, cmd, cmd = "START_MISSION")
          /\ UNCHANGED mavVars
  /\ UNCHANGED <<detVars, misVars, entVars, mwVars, dspVars, reqVars>>

\* The handler's await has returned.  After the arm of a TAKEOFF:
\* guided_takeoff_async returns False if the arm failed and otherwise sends
\* MAV_CMD_NAV_TAKEOFF and waits again.  After any other call the handler
\* publishes the status of the call's result.
BrResume(h) ==
  LET handler == br_handlers[h]
      success == mav_calls[handler.call].result = "true"
  IN /\ handler.pc \in {"arming", "awaiting"}
     /\ mav_calls[handler.call].pc = "returned"
     /\ IF handler.pc = "arming" /\ success
        THEN /\ SendCommandLongAsync(NextCall, 22, CommandTimeout)
             /\ br_handlers' = [br_handlers EXCEPT ![h] =
                   [handler EXCEPT !.pc = "awaiting", !.call = NextCall]]
             /\ UNCHANGED br_published
        ELSE /\ br_handlers' = [br_handlers EXCEPT ![h] = [handler EXCEPT !.pc = "done"]]
             /\ br_published' = PublishStatus(h, handler.cmd, success)
             /\ UNCHANGED mavVars
     /\ UNCHANGED <<detVars, misVars, entVars, mwVars, dspVars, reqVars>>

NextBridge ==
  \/ \E h \in HandlerIds, cmd \in BridgeCommands : BrReceive(h, cmd)
  \/ \E h \in HandlerIds : BrResume(h)
  \/ BrQuiet /\ MavConnect
  \/ BrQuiet /\ \E c \in Commands, result \in AckResults : MavHandleCommandAck(c, result)
  \/ BrQuiet /\ \E i \in CallIds : MavReturnResult(i)
  \/ BrQuiet /\ \E i \in CallIds : MavTimeoutFires(i)
  \/ BrQuiet /\ \E i \in CallIds : MavTimeoutReturns(i)
  \/ BrQuiet /\ MavTick

(* --------------------------- Specifications ----------------------------- *)
Init ==
  /\ InitDetector /\ InitMavlink /\ InitMission /\ InitEntity /\ InitWorkflow
  /\ InitDispatcher /\ InitRequest /\ InitBridge

NextDetector == DetectorEvaluate \/ DetectorStore

SpecDetector == Init /\ [][NextDetector]_vars

SpecMavlink == Init /\ [][NextMavlink]_vars

SpecMission == Init /\ [][NextMission]_vars

SpecEntity == Init /\ [][NextEntity]_vars

\* The entity under Temporal's scheduling: a wait whose condition holds is
\* woken and the code after it runs.
SpecEntityLive ==
  /\ Init /\ [][NextEntity]_vars
  /\ WF_vars(LoopExit)
  /\ WF_vars(DisarmWaitWakes)

SpecWorkflow == Init /\ [][NextWorkflow]_vars

SpecDispatcher == Init /\ [][NextDispatcher]_vars

SpecBridge == Init /\ [][NextBridge]_vars

SpecRequest == Init /\ [][NextRequest]_vars

\* The request under Temporal's scheduling: a workflow task that can run is
\* run, an activity that is scheduled is attempted again after every failure
\* (both dispatch activities have no maximum_attempts), and an attempt that
\* can succeed at every try does succeed at one of them.
SpecRequestLive ==
  /\ Init /\ [][NextRequest]_vars
  /\ WF_vars(\E plan \in PlanIds : ReqPlanMission(plan))
  /\ WF_vars(ReqFindReturns)
  /\ WF_vars(ReqAssignReturns)
  /\ WF_vars(ReqReturn)

(* ------------------- claims about MissionDetector ---------------------- *)
\* The last evaluate was entered in CANDIDATE with a sample at least
\* MIN_DURATION_SEC after the candidate's start_sample.
DetDurationMet ==
  /\ det_prev.state_name = "CANDIDATE"
  /\ det_sample.timestamp # NoneVal
  /\ det_sample.timestamp - det_prev.start_sample.timestamp >= MIN_DURATION_SEC

\* ... and with a sample at least MIN_DISTANCE_M from the reference position.
DetDistanceMet ==
  /\ det_prev.state_name = "CANDIDATE"
  /\ DistanceMm(RefSample(det_prev, det_sample), det_sample) >= MIN_DISTANCE_M * 1000

C3_ConfirmedCandidateStarts ==
  (/\ det_pc = "evaluated"
   /\ det_sample.armed = "true" /\ det_sample.type # "HOME_POSITION"
   /\ DetDurationMet /\ DetDistanceMet)
  => /\ det_new.state_name = "IN_MISSION"
     /\ det_event = "MISSION_STARTED"
     /\ det_new.start_sample = det_prev.start_sample

\* C3 as stated: every armed sample, of any type.
C3_AsStated ==
  (/\ det_pc = "evaluated"
   /\ det_sample.armed = "true"
   /\ DetDurationMet /\ DetDistanceMet)
  => /\ det_new.state_name = "IN_MISSION"
     /\ det_event = "MISSION_STARTED"
     /\ det_new.start_sample = det_prev.start_sample

\* A candidate confirmed by an armed sample exactly 30 s after its start.
C3_Witness ==
  /\ det_pc = "evaluated"
  /\ det_sample.armed = "true" /\ det_sample.type # "HOME_POSITION"
  /\ DetDistanceMet
  /\ det_sample.timestamp - det_prev.start_sample.timestamp = MIN_DURATION_SEC
  /\ det_new.state_name = "IN_MISSION" /\ det_event = "MISSION_STARTED"

(* ------------------ claims about MavlinkConnection --------------------- *)
\* Call i was sent (it reached its await) and has returned.
SentAndReturned(i) ==
  mav_calls[i].pc = "returned" /\ mav_calls[i].sent_at # NoneVal

\* C4: a sent call for whose command id no COMMAND_ACK was handled while it
\* waited returns False at its deadline, neither earlier nor later, and when it
\* returns pending_commands has no entry for its command id; no call is still
\* waiting after its deadline.
C4_NoAckFailsAtTimeout ==
  \A i \in CallIds :
    /\ (SentAndReturned(i) /\ mav_calls[i].first_ack = NoneVal) =>
          /\ mav_calls[i].result = "false"
          /\ mav_calls[i].returned_at = mav_calls[i].deadline
          /\ ~mav_calls[i].entry_at_return
    /\ mav_calls[i].pc \in {"awaiting", "cancelled"} => mav_now <= mav_calls[i].deadline

\* A call that was sent, saw no acknowledgment and returned False at its
\* deadline, after time had passed.
C4_Witness ==
  \E i \in CallIds :
    /\ SentAndReturned(i) /\ mav_calls[i].first_ack = NoneVal
    /\ mav_calls[i].result = "false"
    /\ mav_calls[i].returned_at = mav_calls[i].deadline
    /\ mav_calls[i].deadline > mav_calls[i].sent_at
    /\ mav_pending[mav_calls[i].command] = 0

\* C5 as stated: every sent call returns the result decided by whichever came
\* first, a COMMAND_ACK for its command id or its timeout, and
\* pending_commands is empty whenever no call is outstanding.
C5_AsStated ==
  /\ \A i \in CallIds : SentAndReturned(i) =>
        IF mav_calls[i].first_ack # NoneVal
        THEN mav_calls[i].result = (IF mav_calls[i].first_ack = 0 THEN "true" ELSE "false")
        ELSE mav_calls[i].result = "false" /\ mav_calls[i].returned_at = mav_calls[i].deadline
  /\ (\A i \in CallIds : ~Outstanding(i)) => \A c \in Commands : mav_pending[c] = 0

\* C6: a call whose pending Future handle_command_ack resolved returns True
\* iff that acknowledgment's result was ACCEPTED (0), and False otherwise.
C6_AckDecidesResult ==
  \A i \in CallIds :
    (mav_calls[i].pc = "returned" /\ mav_calls[i].delivered # NoneVal) =>
      /\ mav_calls[i].result \in {"true", "false"}
      /\ mav_calls[i].result = "true" <=> mav_calls[i].delivered = 0

\* One call returned True on an ACCEPTED acknowledgment and another returned
\* False on a different result.
C6_Witness ==
  \E i, j \in CallIds :
    /\ mav_calls[i].pc = "returned" /\ mav_calls[i].delivered = 0
    /\ mav_calls[i].result = "true"
    /\ mav_calls[j].pc = "returned" /\ mav_calls[j].delivered \notin {NoneVal, 0}
    /\ mav_calls[j].result = "false"

(* -------------------- claims about MissionManager ---------------------- *)
\* C7: _upload_list with an empty list sends nothing, with N >= 1 items exactly
\* one MISSION_COUNT carrying N and the type; every MISSION_REQUEST (seq, type)
\* with seq below the length of the list last uploaded for that type is
\* answered with exactly one item message carrying seq, the type and the item
\* stored at index seq.
C7_UploadHandshake ==
  /\ mis_last.op = "_upload_list" =>
        mis_sent = IF Len(mis_last.items) = 0 THEN <<>>
                   ELSE <<CountMessage(Len(mis_last.items), mis_last.mission_type)>>
  /\ (/\ mis_last.op = "MISSION_REQUEST"
      /\ mis_last.mission_type \in MissionTypes
      /\ mis_last.seq < Len(mis_uploaded[mis_last.mission_type])) =>
        LET item == mis_uploaded[mis_last.mission_type][mis_last.seq + 1]
        IN /\ Len(mis_sent) = 1
           /\ mis_sent[1].msg = "MISSION_ITEM_INT"
           /\ mis_sent[1].seq = mis_last.seq
           /\ mis_sent[1].mission_type = mis_last.mission_type
           /\ mis_sent[1].command = item.command
           /\ mis_sent[1].param1 = item.param1
           /\ mis_sent[1].x = IntE7(item.x) /\ mis_sent[1].y = IntE7(item.y)
           /\ mis_sent[1].z = item.z

\* The last item of a two-item list of a type other than 0 was requested and
\* sent, while type 0 holds a different list.
C7_Witness ==
  /\ mis_last.op = "MISSION_REQUEST"
  /\ mis_last.mission_type = 1 /\ mis_last.seq = 1
  /\ Len(mis_uploaded[1]) = 2 /\ Len(mis_uploaded[0]) = 1
  /\ mis_uploaded[0][1] # mis_uploaded[1][2]
  /\ Len(mis_sent) = 1 /\ mis_sent[1].seq = 1 /\ mis_sent[1].mission_type = 1
  /\ mis_sent[1].command = mis_uploaded[1][2].command

\* C26: a MISSION_REQUEST whose mission type has no stored list, or whose seq
\* is not below the length of the list stored for its type, sends no message
\* and changes no stored list.
C26_BadRequestIgnored ==
  [][LET mission_type == mis_last'.mission_type
     IN (/\ mis_last'.op = "MISSION_REQUEST"
         /\ \/ mission_type \notin MissionTypes
            \/ mis_items[mission_type] = <<>>
            \/ mis_last'.seq >= Len(mis_items[mission_type]))
          => mis_sent' = <<>> /\ mis_items' = mis_items]_vars

\* A request for the seq just past the end of a stored list was not answered,
\* and the list is still there.
C26_Witness ==
  /\ mis_last.op = "MISSION_REQUEST"
  /\ mis_last.mission_type \in MissionTypes
  /\ Len(mis_items[mis_last.mission_type]) > 0
  /\ mis_last.seq = Len(mis_items[mis_last.mission_type])
  /\ mis_sent = <<>>

\* C27: upload_mission sends MISSION_COUNT messages only: one, carrying the
\* length, for each type whose list is not empty, none for a type whose list
\* is empty, and the mission's before the fence's before the rally points'.
C27_OneCountPerList ==
  mis_last.op = "upload_mission" =>
    /\ \A k \in 1..Len(mis_sent) : mis_sent[k].msg = "MISSION_COUNT"
    /\ \A ty \in MissionTypes :
          LET n == Len(PlanItems(mis_last.plan, ty))
              sent == {k \in 1..Len(mis_sent) : mis_sent[k].mission_type = ty}
          IN IF n = 0 THEN sent = {}
             ELSE Cardinality(sent) = 1 /\ \A k \in sent : mis_sent[k].count = n
    /\ \A k1, k2 \in 1..Len(mis_sent) :
          k1 < k2 => mis_sent[k1].mission_type < mis_sent[k2].mission_type

\* A plan without waypoints was uploaded: a count for the fence, then one for
\* the rally points, none for the mission.
C27_Witness ==
  /\ mis_last.op = "upload_mission"
  /\ ConvertPlanToItems(mis_last.plan) = <<>>
  /\ Len(mis_sent) = 2
  /\ mis_sent[1] = CountMessage(3, MAV_MISSION_TYPE_FENCE)
  /\ mis_sent[2] = CountMessage(1, MAV_MISSION_TYPE_RALLY)

\* C28: upload_mission(plan) leaves, for every type, exactly the list of that
\* plan stored (none for a type whose list is empty), and a MISSION_REQUEST
\* that follows it for a type empty in the plan is not answered.
C28_OnlyTheNewPlan ==
  [][/\ mis_last'.op = "upload_mission" =>
          \A ty \in MissionTypes : mis_items'[ty] = PlanItems(mis_last'.plan, ty)
     /\ (/\ mis_last.op = "upload_mission"
         /\ mis_last'.op = "MISSION_REQUEST"
         /\ mis_last'.mission_type \in MissionTypes
         /\ PlanItems(mis_last.plan, mis_last'.mission_type) = <<>>)
          => mis_sent' = <<>>]_vars

\* A plan was uploaded over stored lists of two types it has no items of;
\* those types have no stored list any more, the plan's own type has.
C28_Witness ==
  /\ mis_last.op = "upload_mission"
  /\ Cardinality(mis_last.dropped) = 2
  /\ \A ty \in mis_last.dropped : mis_items[ty] = <<>>
  /\ \E ty \in MissionTypes : mis_items[ty] # <<>>

(* ------------------ claims about DroneEntityWorkflow ------------------- *)
\* The missions the actor has taken and not finished: assign_mission has no
\* rejecting path, and nothing in the actor ever ends a mission it was given.
MissionsTaken == Len(ent_assigned)

\* C1 as stated: at most one mission is accepted on the actor at a time; an
\* assign_mission arriving while one is outstanding is rejected.
C1_AsStated == MissionsTaken <= 1

\* C8 as stated: once the actor has taken an assign_mission it has started a
\* MissionWorkflow child, and its status is ON_MISSION while that runs and
\* IDLE afterwards.
C8_AsStated ==
  MissionsTaken > 0 =>
    /\ \E k \in 1..Len(ent_children) : ent_children[k].workflow = "MissionWorkflow"
    /\ ent_status \in {"ON_MISSION", "IDLE"}

\* The stop signals sent to session n so far.
StopSignals(n) ==
  {k \in 1..Len(ent_signals) :
     ent_signals[k] = [to |-> n, signal |-> "end_custom_session"]}

\* A step that ends the disarm wait.
LeavesDisarmWait == ent_pc = "disarm_wait" /\ ent_pc' # "disarm_wait"

\* C9: the disarm wait happens inside a session and lasts at most
\* timeout_after_disarm_sec.  When it ends with an armed sample present before
\* the window has elapsed, the session goes on: same handle, no child started,
\* no signal sent, the sample left for the next loop pass.  When the window has
\* elapsed without an armed sample (and without exit), the wait ends by sending
\* end_custom_session to the session's recorder and clearing the handle.  No
\* recorder is ever signalled to stop twice.
C9_DisarmWait ==
  /\ [](ent_pc = "disarm_wait" =>
          ent_handle \in 1..Len(ent_children) /\ ent_wait <= TimeoutAfterDisarmSec)
  /\ [](\A n \in 1..Len(ent_children) : Cardinality(StopSignals(n)) <= 1)
  /\ [][LeavesDisarmWait =>
          LET how == ent_wait_ends'[Len(ent_wait_ends')]
              session == ent_handle
          IN /\ (ent_latest.armed = "true" /\ ~ent_exit /\ ent_wait < TimeoutAfterDisarmSec)
                  => how = "rearm"
             /\ how = "rearm" =>
                  /\ ent_latest.armed = "true" /\ ent_latest' = ent_latest
                  /\ ent_pc' = "idle"
                  /\ ent_handle' = session
                  /\ ent_children' = ent_children
                  /\ ent_signals' = ent_signals
             /\ (ent_wait = TimeoutAfterDisarmSec /\ ~RearmedOrExit) => how = "timeout"
             /\ how = "timeout" =>
                  /\ ent_wait = TimeoutAfterDisarmSec
                  /\ ent_signals' = Append(ent_signals,
                                           [to |-> session, signal |-> "end_custom_session"])
                  /\ Cardinality(StopSignals(session)) = 0
                  /\ ent_handle' = 0
                  /\ ent_children' = ent_children]_vars

\* One session whose first disarm wait ended by re-arm and whose second ended
\* by timeout: one recorder, one stop signal, no handle.
C9_Witness ==
  /\ ent_wait_ends = <<"rearm", "timeout">>
  /\ Len(ent_children) = 1
  /\ ent_signals = <<[to |-> 1, signal |-> "end_custom_session"]>>
  /\ ent_handle = 0

\* C10 as stated: every field a sample supplied has its last supplied value in
\* _latest_telemetry, and _status is ONLINE_ARMED exactly when the last
\* supplied armed value is true.
C10_AsStated ==
  /\ ent_latest # NoSample =>
        /\ ent_known.armed # "none" => ent_latest.armed = ent_known.armed
        /\ ent_known.lat # NoneVal => ent_latest.lat = ent_known.lat
        /\ ent_known.lon # NoneVal => ent_latest.lon = ent_known.lon
        /\ ent_known.alt # NoneVal => ent_latest.alt = ent_known.alt
        /\ ent_latest.timestamp = ent_known.timestamp
  /\ ent_status # "OFFLINE" =>
        (ent_status = "ONLINE_ARMED" <=> ent_known.armed = "true")

(* -------------------- claims about MissionWorkflow --------------------- *)
\* The log of a run in which every command is published once.
RECURSIVE Sleeps(_)
Sleeps(n) == IF n = 0 THEN <<>> ELSE Append(Sleeps(n - 1), "sleep")

\* C11 as stated: a run that returned 'Mission Complete' published ARM, then
\* TAKEOFF, then slept once per waypoint, then published LAND, each command
\* exactly once.
C11_AsStated ==
  mw_result = "Mission Complete" =>
    mw_log = <<"ARM", "TAKEOFF">> \o Sleeps(mw_plan.waypoints) \o <<"LAND">>

\* C12: check_preflight is attempted at most once, and only for a plan with
\* constraints; an attempt that does not pass fails the workflow with nothing
\* published, and a failed workflow publishes nothing afterwards.
C12_PreflightFailureAborts ==
  /\ [](mw_preflights <= 1 /\ (mw_preflights > 0 => mw_plan.constraints))
  /\ [][(mw_preflights' > mw_preflights /\ mw_pc' # "ARM") =>
          (mw_pc' = "failed" /\ mw_result' = "failed" /\ mw_log' = <<>>)]_vars
  /\ [][mw_pc = "failed" => UNCHANGED <<mw_pc, mw_log, mw_preflights>>]_vars

\* A plan with constraints whose one preflight attempt failed.
C12_Witness ==
  /\ mw_plan.constraints
  /\ mw_pc = "failed" /\ mw_result = "failed"
  /\ mw_preflights = 1
  /\ mw_log = <<>>

\* C13 as stated: a failed attempt of ARM, TAKEOFF or LAND has aborted the
\* workflow; no command step is waiting to be tried again.
C13_AsStated == mw_failures > 0 => mw_pc = "failed"

\* C14 as stated: TAKEOFF is published only after the vehicle reported ARM as
\* successful, LAND only after it reported TAKEOFF so, and the run completes
\* only after it reported LAND so.
C14_AsStated ==
  /\ "TAKEOFF" \in Published => mw_vehicle["ARM"] = "success"
  /\ "LAND" \in Published => mw_vehicle["TAKEOFF"] = "success"
  /\ mw_result = "Mission Complete" => mw_vehicle["LAND"] = "success"

(* ------------- further claims about MissionDetector -------------------- *)
\* The last evaluate was entered in state name with a sample it does not drop
\* for want of a timestamp and that is not a HOME_POSITION sample.
DetProcessedIn(name) ==
  /\ det_pc = "evaluated"
  /\ det_prev.state_name = name
  /\ det_sample.timestamp # NoneVal /\ det_sample.timestamp # 0
  /\ det_sample.type # "HOME_POSITION"

\* C15: evaluated in CANDIDATE, a sample whose armed field is None never
\* yields IDLE.
C15_UnknownArmedNeverResets ==
  (det_pc = "evaluated" /\ det_prev.state_name = "CANDIDATE"
     /\ det_sample.armed = "none")
    => det_new.state_name # "IDLE"

\* A position-only sample, too early to confirm, left the candidate as it was.
C15_Witness ==
  /\ DetProcessedIn("CANDIDATE")
  /\ det_sample.armed = "none" /\ det_sample.lat # NoneVal
  /\ ~DetDurationMet
  /\ det_new.state_name = "CANDIDATE"
  /\ det_new.start_sample.timestamp = det_prev.start_sample.timestamp

\* C16 as stated: evaluated in CANDIDATE, a sample whose armed field is None
\* leaves the detector in CANDIDATE with no event.
C16_AsStated ==
  (det_pc = "evaluated" /\ det_prev.state_name = "CANDIDATE"
     /\ det_sample.armed = "none")
    => det_new.state_name = "CANDIDATE" /\ det_event = "None"

\* The candidate has no position of its own and a home position is known.
DetHomeFallback ==
  /\ det_prev.state_name = "CANDIDATE"
  /\ det_prev.start_sample.lat = NoneVal
  /\ det_prev.home_position # NoSample

\* C17 (as amended): with home_position known and a start_sample without
\* position, a sample with armed true of a type other than HOME_POSITION, at
\* least 30 s after the candidate start and at least 10 m from home_position,
\* yields IN_MISSION and MISSION_STARTED; the distance is the one from
\* home_position, so nearer than 10 m to it nothing starts.
C17_HomeFallbackStarts ==
  (DetProcessedIn("CANDIDATE") /\ DetHomeFallback /\ DetDurationMet) =>
    /\ (det_sample.armed = "true"
          /\ DistanceMm(det_prev.home_position, det_sample) >= MIN_DISTANCE_M * 1000)
         => det_new.state_name = "IN_MISSION" /\ det_event = "MISSION_STARTED"
    /\ DistanceMm(det_prev.home_position, det_sample) < MIN_DISTANCE_M * 1000
         => det_event # "MISSION_STARTED"

\* C17 as stated: any sample late enough and far enough from home_position
\* yields MISSION_STARTED.
C17_AsStated ==
  (/\ det_pc = "evaluated" /\ DetHomeFallback /\ DetDurationMet
   /\ DistanceMm(det_prev.home_position, det_sample) >= MIN_DISTANCE_M * 1000)
    => det_event = "MISSION_STARTED"

\* A mission started on the distance from home_position, the candidate's
\* start_sample still without position.
C17_Witness ==
  /\ DetProcessedIn("CANDIDATE") /\ DetHomeFallback /\ DetDurationMet
  /\ det_sample.armed = "true"
  /\ DistanceMm(det_prev.home_position, det_sample) >= MIN_DISTANCE_M * 1000
  /\ det_event = "MISSION_STARTED"
  /\ det_new.start_sample.lat = NoneVal

\* C18 as stated: a reset to IDLE from CANDIDATE or IN_MISSION keeps the
\* home_position held before it.
C18_AsStated ==
  (/\ det_pc = "evaluated"
   /\ det_prev.state_name \in {"CANDIDATE", "IN_MISSION"}
   /\ det_new.state_name = "IDLE"
   /\ det_prev.home_position # NoSample)
    => det_new.home_position = det_prev.home_position

\* C19: a HOME_POSITION sample with a timestamp evaluate accepts emits no
\* event and returns the state it was given with home_position set to the
\* sample, in every state and whatever armed it carries.
C19_HomeOnlySetsHome ==
  (/\ det_pc = "evaluated"
   /\ det_sample.type = "HOME_POSITION"
   /\ det_sample.timestamp # NoneVal /\ det_sample.timestamp # 0)
    => /\ det_event = "None"
       /\ det_new.state_name = det_prev.state_name
       /\ det_new.start_sample = det_prev.start_sample
       /\ det_new.last_processed_timestamp = det_prev.last_processed_timestamp
       /\ det_new.home_position = det_sample

\* A HOME_POSITION sample reporting armed false replaced an older home
\* position during a mission.
C19_Witness ==
  /\ det_pc = "evaluated"
  /\ det_sample.type = "HOME_POSITION" /\ det_sample.timestamp > 0
  /\ det_sample.armed = "false"
  /\ det_prev.state_name = "IN_MISSION"
  /\ det_prev.home_position # NoSample /\ det_prev.home_position # det_sample
  /\ det_new.state_name = "IN_MISSION" /\ det_new.home_position = det_sample

\* C20: in IN_MISSION, armed false yields IDLE and MISSION_ENDED; every other
\* accepted sample that is not a HOME_POSITION leaves IN_MISSION with no event
\* and last_processed_timestamp at the sample's timestamp; MISSION_ENDED comes
\* from no other state.
C20_InMission ==
  /\ DetProcessedIn("IN_MISSION") =>
        IF det_sample.armed = "false"
        THEN det_new.state_name = "IDLE" /\ det_event = "MISSION_ENDED"
        ELSE /\ det_new.state_name = "IN_MISSION" /\ det_event = "None"
             /\ det_new.start_sample = det_prev.start_sample
             /\ det_new.last_processed_timestamp = det_sample.timestamp
  /\ (det_pc = "evaluated" /\ det_event = "MISSION_ENDED") =>
        DetProcessedIn("IN_MISSION") /\ det_sample.armed = "false"

\* A mission that took a sample with armed unknown and went on.
C20_Witness ==
  /\ DetProcessedIn("IN_MISSION")
  /\ det_sample.armed = "none"
  /\ det_new.state_name = "IN_MISSION" /\ det_event = "None"
  /\ det_new.last_processed_timestamp = det_sample.timestamp
  /\ det_prev.last_processed_timestamp # det_sample.timestamp

\* C21 (as amended): in CANDIDATE a sample of a type other than HOME_POSITION
\* that carries a timestamp and armed false yields IDLE with no event and no
\* start_sample, whatever time has passed and whatever the distance; in IDLE
\* such a sample with armed true starts a candidate whose start_sample is
\* that sample.
C21_DisarmResetsCandidate ==
  /\ (DetProcessedIn("CANDIDATE") /\ det_sample.armed = "false") =>
        /\ det_new.state_name = "IDLE"
        /\ det_event = "None"
        /\ det_new.start_sample = NoSample
  /\ (DetProcessedIn("IDLE") /\ det_sample.armed = "true") =>
        /\ det_new.state_name = "CANDIDATE"
        /\ det_event = "None"
        /\ det_new.start_sample = det_sample

\* C21 as stated: in CANDIDATE every sample with a timestamp and armed false
\* yields IDLE.
C21_AsStated ==
  (/\ det_pc = "evaluated" /\ det_prev.state_name = "CANDIDATE"
   /\ det_sample.timestamp # NoneVal /\ det_sample.timestamp # 0
   /\ det_sample.armed = "false")
    => det_new.state_name = "IDLE" /\ det_event = "None"

\* A candidate old enough and far enough to be confirmed was reset by a
\* sample with armed false.
C21_Witness ==
  /\ DetProcessedIn("CANDIDATE") /\ det_sample.armed = "false"
  /\ det_prev.start_sample.lat # NoneVal /\ det_sample.lat # NoneVal
  /\ DetDurationMet /\ DetDistanceMet
  /\ det_new.state_name = "IDLE" /\ det_new.start_sample = NoSample

\* C22: evaluating a sample on the state that evaluating the same sample
\* returned gives that state again.
C22_EvaluateIdempotent ==
  det_pc = "evaluated" => Evaluate(det_new, det_sample).state = det_new

\* The first evaluation changed the state: it confirmed a mission, or wrote
\* the sample's position into a candidate that had none.
C22_Witness ==
  /\ DetProcessedIn("CANDIDATE")
  /\ det_new # det_prev
  /\ det_new.state_name = "IN_MISSION"
  /\ Evaluate(det_new, det_sample).state = det_new

\* C23 as stated: evaluate leaves the DetectorState it is given as it was.
C23_AsStated ==
  det_pc = "evaluated" => det_state = det_prev

(* --------------- further claims about MavlinkConnection ---------------- *)
\* What a call has of a result: its position, its Future and what it returned.
CallOutcome(i) ==
  <<mav_calls[i].pc, mav_calls[i].fut, mav_calls[i].fut_result, mav_calls[i].result>>

\* C24: handle_command_ack for a command id without an entry in
\* pending_commands resolves no call and leaves pending_commands as it was;
\* no acknowledgment changes the result of a Future already resolved or the
\* value a call has returned.
C24_UnmatchedAckDiscarded ==
  [][\A c \in Commands, result \in AckResults :
       MavHandleCommandAck(c, result) =>
         /\ mav_pending[c] = 0 =>
               /\ mav_pending' = mav_pending
               /\ \A j \in CallIds : CallOutcome(j)' = CallOutcome(j)
         /\ \A j \in CallIds :
               /\ mav_calls[j].fut = "done" =>
                     mav_calls'[j].fut_result = mav_calls[j].fut_result
               /\ mav_calls[j].result # "none" =>
                     mav_calls'[j].result = mav_calls[j].result]_vars

\* A call resolved by an ACCEPTED acknowledgment returned True although a
\* second acknowledgment for its command id, with another result, was
\* discarded in between.
C24_Witness ==
  \E i \in CallIds :
    /\ mav_calls[i].pc = "returned"
    /\ mav_calls[i].delivered = 0 /\ mav_calls[i].result = "true"
    /\ mav_ignored.command = mav_calls[i].command
    /\ mav_ignored.duplicate /\ mav_ignored.result # 0
    /\ \A j \in CallIds : j # i => mav_calls[j].pc = "new"

DroneFound(call) == ~call.response.failed /\ call.response.things # <<>>

\* C29: a dispatch_mission call whose index query returned at least one thing
\* has made exactly one handle.signal call, of assign_mission with the call's
\* plan on the entity workflow of the first thing; once that call completes
\* it returns the first thing's name, whatever the entity held, and it raises
\* only what the signal call raised.
C29_FirstDroneSignalledOnce ==
  \A n \in 1..Len(dsp_calls) :
    LET call == dsp_calls[n]
        first == call.response.things[1].thingName
        sent_after == IF n < Len(dsp_calls) THEN dsp_calls[n + 1].sent_before
                      ELSE Len(dsp_signals)
    IN DroneFound(call) =>
         /\ sent_after = call.sent_before + 1
         /\ dsp_signals[sent_after] =
               [workflow_id |-> <<"entity-", first>>, signal |-> "assign_mission",
                arg |-> call.plan]
         /\ call.outcome = "returned" => call.value = first
         /\ call.outcome = "raised" => call.value = "RPCError"

\* The index listed two drones; the call signalled the first one's entity,
\* which was BUSY, and returned its name.
C29_Witness ==
  \E n \in 1..Len(dsp_calls) :
    /\ Len(dsp_calls[n].response.things) = 2
    /\ dsp_calls[n].outcome = "returned"
    /\ dsp_calls[n].value = dsp_calls[n].response.things[1].thingName
    /\ dsp_calls[n].entity_status = "BUSY"
    /\ dsp_signals[dsp_calls[n].sent_before + 1].workflow_id
         = <<"entity-", dsp_calls[n].value>>

\* C30: a dispatch_mission call whose index query returned no thing raised
\* NoDroneAvailableError, one whose query failed raised another error, and
\* neither made a handle.signal call.
C30_NoDroneNoSignal ==
  \A n \in 1..Len(dsp_calls) :
    LET call == dsp_calls[n]
        sent_after == IF n < Len(dsp_calls) THEN dsp_calls[n + 1].sent_before
                      ELSE Len(dsp_signals)
    IN ~DroneFound(call) =>
         /\ call.outcome = "raised"
         /\ call.response.failed => call.value # "NoDroneAvailableError"
         /\ ~call.response.failed => call.value = "NoDroneAvailableError"
         /\ sent_after = call.sent_before

\* One call found the index empty and one found it failing: two different
\* errors and no signal.
C30_Witness ==
  /\ dsp_signals = <<>>
  /\ \E n, m \in 1..Len(dsp_calls) :
        /\ ~dsp_calls[n].response.failed /\ dsp_calls[n].response.things = <<>>
        /\ dsp_calls[n].value = "NoDroneAvailableError"
        /\ dsp_calls[m].response.failed
        /\ dsp_calls[m].value = "RuntimeError"

(* ------------- Overlapping calls and the timeout (C39) ------------------ *)

\* C39 as stated: when a send_command_long_async call returns by timeout, an
\* entry of pending_commands that another, still outstanding call registered
\* under the same command id stays where it is.
C39_AsStated ==
  [][\A i \in CallIds :
       (mav_calls[i].pc = "cancelled" /\ mav_calls'[i].pc = "returned")
         => LET c == mav_calls[i].command
            IN (mav_pending[c] # 0 /\ mav_pending[c] # i)
                  => mav_pending'[c] = mav_pending[c]]_vars

\* The case itself: call 1 has returned False by timeout while call 2, sent
\* after it with the same command id, was still waiting, and pending_commands
\* no longer holds call 2's entry.
C39_EntryLost ==
  /\ mav_calls[1].pc = "returned" /\ mav_calls[1].result = "false"
  /\ mav_calls[1].delivered = NoneVal
  /\ mav_calls[2].pc = "awaiting"
  /\ mav_calls[2].command = mav_calls[1].command
  /\ mav_pending[mav_calls[2].command] = 0
  /\ mav_ignored = NoAck

(* ---------------- convert_plan_to_items (C40) --------------------------- *)

\* The number of optional items (speed change, region of interest) the first
\* k waypoints of a plan ask for.
RECURSIVE OptionalItems(_, _)
OptionalItems(waypoints, k) ==
  IF k = 0 THEN 0
  ELSE OptionalItems(waypoints, k - 1)
         + (IF waypoints[k].has_speed THEN 1 ELSE 0)
         + (IF waypoints[k].has_roi THEN 1 ELSE 0)

\* The mission items stored by the upload_mission call that was the last
\* operation: the output of convert_plan_to_items for its plan.
ConvertedItems == mis_items[MAV_MISSION_TYPE_MISSION]

\* C40: the items converted from a plan are, waypoint by waypoint in plan
\* order, a speed-change item (178) if the waypoint has a speed, then a
\* region-of-interest item (201) if it has one, then the waypoint's navigation
\* item with command 22, 21 or 20 for TAKEOFF, LAND and RTL and 16 otherwise;
\* the list has waypoints + speeds + rois items.
C40_ConvertedInPlanOrder ==
  mis_last.op = "upload_mission" =>
    LET wps == mis_last.plan.waypoints
        items == ConvertedItems
        NavAt(k) == k + OptionalItems(wps, k)
    IN /\ Len(items) = Len(wps) + OptionalItems(wps, Len(wps))
       /\ \A k \in 1..Len(wps) :
            LET wp == wps[k]
                nav == items[NavAt(k)]
                roi_at == NavAt(k) - 1
                speed_at == NavAt(k) - 1 - (IF wp.has_roi THEN 1 ELSE 0)
            IN /\ nav.command = (CASE wp.type = "TAKEOFF" -> 22
                                   [] wp.type = "LAND" -> 21
                                   [] wp.type = "RTL" -> 20
                                   [] OTHER -> 16)
               /\ nav.x = wp.lat /\ nav.y = wp.lon /\ nav.z = wp.alt
               /\ nav.param1 = wp.hold_time
               /\ wp.has_roi =>
                    /\ items[roi_at].command = 201
                    /\ items[roi_at].x = wp.roi.lat /\ items[roi_at].y = wp.roi.lon
               /\ wp.has_speed =>
                    /\ items[speed_at].command = 178
                    /\ items[speed_at].param2 = wp.speed

\* A plan of two waypoints, the second with a speed and a region of interest,
\* has been converted into five items.
C40_Witness ==
  /\ mis_last.op = "upload_mission"
  /\ Len(mis_last.plan.waypoints) = 2
  /\ mis_last.plan.waypoints[2].has_speed /\ mis_last.plan.waypoints[2].has_roi
  /\ mis_last.plan.waypoints[1].has_speed /\ ~mis_last.plan.waypoints[1].has_roi
  /\ Len(ConvertedItems) = 5
  /\ ConvertedItems[5].command = 20

(* --------------- claims about MissionRequestWorkflow -------------------- *)

\* What holds of the request in every state: a failed search never ends it,
\* at most one assignment is made, an assignment is of the planned mission to
\* the entity of the drone the search returned, and the request has ended
\* exactly when it returned 'mission_started' after its one assignment.
RequestSafe ==
  /\ req_pc # "failed"
  /\ Len(req_signals) <= 1
  /\ req_signals # <<>> =>
       /\ req_drone \in Drones
       /\ req_plan \in PlanIds
       /\ req_signals[1].workflow_id = <<"entity-", req_drone>>
       /\ req_signals[1].signal = "assign_mission"
       /\ req_signals[1].arg = req_plan
  /\ (req_pc = "done") = (req_result = "mission_started")
  /\ req_pc = "done" => Len(req_signals) = 1

\* What holds of every step: the drone is set by a search that found the fleet
\* index listing it first, a search that found no drone leaves the request
\* searching, and an assignment is made only after a search has returned.
RequestStep ==
  /\ req_drone' # req_drone =>
       /\ req_pc = "searching" /\ Available
       /\ req_drone' = req_index.things[1].thingName
  /\ (req_pc = "searching" /\ req_finds' # req_finds /\ ~Available) =>
       req_pc' = "searching" /\ req_signals' = req_signals
  /\ req_signals' # req_signals =>
       /\ req_pc = "assigning" /\ req_drone \in Drones
       /\ req_finds > 0

C32_AsStated ==
  \A k \in 1..Len(req_signals) :
    req_signals[k].busy => req_result # "mission_started"

(* ------------------ exit of DroneEntityWorkflow (C33) ------------------- *)

\* What a step may do once _exit is set: it spawns no recorder, consumes no
\* sample, lets no time of a disarm wait pass, and moves run only to its end;
\* the one other move is the disarm wait's timer that was already due when
\* the exit arrived.
AfterExitStep ==
  ent_exit =>
    /\ ent_children' = ent_children
    /\ ~(ent_latest # NoSample /\ ent_latest' = NoSample)
    /\ ent_wait' \in {ent_wait, 0}
    /\ ent_pc' # ent_pc =>
         \/ ent_pc' = "done"
         \/ /\ ent_pc = "disarm_wait" /\ ent_pc' = "idle"
            /\ ent_wait = TimeoutAfterDisarmSec

\* C33: after exit_entity is signalled run terminates, from the idle wait and
\* from the post-disarm wait alike, the latter without waiting for the disarm
\* timeout; once _exit is set no sample is processed and no recorder is
\* spawned.
C33_ExitTerminates ==
  /\ [][AfterExitStep]_vars
  /\ [](ent_pc = "done" => ent_exit)
  /\ (ent_exit ~> ent_pc = "done")

\* run has ended from a disarm wait that the exit woke, with the session's
\* recorder still held and a sample left unprocessed.
C33_Witness ==
  /\ ent_pc = "done" /\ ent_exit
  /\ ent_wait_ends # <<>> /\ ent_wait_ends[Len(ent_wait_ends)] = "exit"
  /\ ent_handle # 0
  /\ ent_latest # NoSample

(* ---------------- claims about on_command_received (C34) ---------------- *)

\* The first COMMAND_ACK with the call's command id that was handled while
\* the call waited, within its timeout, reported MAV_RESULT_ACCEPTED.
AcknowledgedAccepted(i) == i # 0 /\ mav_calls[i].first_ack = 0

\* The status messages published for handler h.
StatusesOf(h) == {k \in 1..Len(br_published) : br_published[k].handler = h}

\* C34 as stated: every run of on_command_received publishes one status, when
\* it has finished; for ARM and DISARM the status is 'success' exactly when
\* the command was acknowledged as accepted within the timeout, for TAKEOFF
\* exactly when its arm and its takeoff command both were; a command that
\* raises (RTL) or is unknown gives 'failed'.
C34_AsStated ==
  \A h \in HandlerIds :
    LET handler == br_handlers[h]
    IN /\ Cardinality(StatusesOf(h)) = (IF handler.pc = "done" THEN 1 ELSE 0)
       /\ \A k \in StatusesOf(h) :
            LET success == br_published[k].status = "success"
            IN /\ br_published[k].command = handler.cmd
               /\ handler.cmd \in {"ARM", "DISARM"} =>
                    success = AcknowledgedAccepted(handler.call)
               /\ handler.cmd = "TAKEOFF" =>
                    success = (/\ AcknowledgedAccepted(handler.arm_call)
                               /\ handler.call # handler.arm_call
                               /\ AcknowledgedAccepted(handler.call))
               /\ handler.cmd \in {"RTL", "HOVER"} => ~success

(* --------------- two deliveries and the loop (C35) ---------------------- *)

\* C35 as stated: when an armed sample with a position and then an armed
\* sample at least min_duration_seconds later and min_distance_meters away
\* are all that was signalled, the actor starts one recording session, and has
\* started it once it has consumed what was signalled, whether the loop ran
\* between the two deliveries or the second was merged into the first.
C35_AsStated ==
  ent_history = "armed_then_moved" =>
    /\ Len(ent_children) <= 1
    /\ (ent_pc = "idle" /\ ent_latest = NoSample) => Len(ent_children) = 1

\* The loop ran between the two deliveries: one session has been started.
C35_LoopRanBetween ==
  /\ ent_history = "armed_then_moved"
  /\ ent_pc = "idle" /\ ent_latest = NoSample
  /\ Len(ent_children) = 1 /\ ent_handle = 1

(* ------------------- one recorder at a time (C36) ----------------------- *)

\* The recorders started and not yet signalled end_custom_session.
ActiveRecorders ==
  {n \in 1..Len(ent_children) :
     \A k \in 1..Len(ent_signals) :
       ~(ent_signals[k].to = n /\ ent_signals[k].signal = "end_custom_session")}

\* A step that starts a recorder: no session handle was held, the session id
\* is one no earlier recorder has, the new handle is that recorder, and every
\* recorder started before has been signalled to stop, by a disarm wait that
\* ended in its timeout.
RecorderSpawnStep ==
  Len(ent_children') > Len(ent_children) =>
    /\ Len(ent_children') = Len(ent_children) + 1
    /\ ent_handle = 0
    /\ ent_handle' = Len(ent_children')
    /\ \A n \in 1..Len(ent_children) :
         ent_children[n].session # ent_children'[Len(ent_children')].session
    /\ ActiveRecorders = {}
    /\ Len(ent_children) > 0 =>
         /\ ent_wait_ends # <<>>
         /\ ent_wait_ends[Len(ent_wait_ends)] = "timeout"
         /\ ent_signals[Len(ent_signals)] =
              [to |-> Len(ent_children), signal |-> "end_custom_session"]

\* C36: at most one SessionRecorder is active per actor at any time; a
\* recorder is spawned only when no session handle is held, with a fresh
\* session id, and only after the previous session was ended by the
\* post-disarm timeout and its recorder signalled to stop.
C36_OneRecorderAtATime ==
  [][/\ RecorderSpawnStep
     /\ Cardinality(ActiveRecorders') <= 1
     /\ ActiveRecorders' = (IF ent_handle' = 0 THEN {} ELSE {ent_handle'})]_vars

\* A second recorder is active after the first session ended by timeout.
C36_Witness ==
  /\ Len(ent_children) = 2
  /\ ent_handle = 2
  /\ ActiveRecorders = {2}
  /\ Len(ent_signals) = 1

(* -------------------- alternation of events (C37) ----------------------- *)

\* C37: the events evaluate emits, from the initial IDLE state on, alternate
\* and begin with MISSION_STARTED: a MISSION_STARTED is never emitted when
\* the event before it was a MISSION_STARTED, and a MISSION_ENDED only when
\* it was.
C37_EventsAlternate ==
  /\ det_event = "MISSION_STARTED" => det_last # "MISSION_STARTED"
  /\ det_event = "MISSION_ENDED" => det_last = "MISSION_STARTED"

\* A MISSION_STARTED has just been emitted after a MISSION_ENDED: the second
\* mission of the stream.
C37_Witness ==
  /\ det_pc = "evaluated"
  /\ det_event = "MISSION_STARTED"
  /\ det_last = "MISSION_ENDED"

(* ------------------ backfill of the first fix (C38) --------------------- *)

\* The last evaluate was entered in CANDIDATE and went on to the criteria: its
\* sample had a timestamp, was not a HOME_POSITION and did not report armed
\* false.
DetCandidateChecked ==
  /\ det_pc = "evaluated"
  /\ det_prev.state_name = "CANDIDATE" /\ det_prev.start_sample # NoSample
  /\ det_sample.timestamp # NoneVal /\ det_sample.timestamp # 0
  /\ det_sample.type # "HOME_POSITION"
  /\ det_sample.armed # "false"

\* C38: when the candidate's start_sample has no position and no
\* home_position is known, the first sample with a position is copied into
\* start_sample and emits nothing, however late it is; from then on
\* start_sample stays as it is, with the original timestamp, and
\* MISSION_STARTED is emitted exactly by a sample at least MIN_DURATION_SEC
\* after that timestamp and MIN_DISTANCE_M from the copied position.
C38_FirstFixIsReference ==
  DetCandidateChecked =>
    /\ (/\ det_prev.start_sample.lat = NoneVal
        /\ det_prev.home_position = NoSample
        /\ det_sample.lat # NoneVal) =>
          /\ det_event = "None"
          /\ det_new.state_name = "CANDIDATE"
          /\ det_new.start_sample =
               [det_prev.start_sample EXCEPT !.lat = det_sample.lat,
                                             !.lon = det_sample.lon,
                                             !.alt = det_sample.alt]
    /\ det_backfilled =>
          /\ det_prev.start_sample.lat # NoneVal
          /\ det_new.start_sample = det_prev.start_sample
          /\ (det_event = "MISSION_STARTED") =
               (/\ det_sample.timestamp - det_prev.start_sample.timestamp
                     >= MIN_DURATION_SEC
                /\ DistanceMm(det_prev.start_sample, det_sample)
                     >= MIN_DISTANCE_M * 1000)

\* A first fix that came MIN_DURATION_SEC after the arming has just been
\* copied into the start sample without an event.
C38_Witness ==
  /\ DetCandidateChecked
  /\ det_prev.start_sample.lat = NoneVal /\ det_prev.home_position = NoSample
  /\ det_sample.lat # NoneVal
  /\ det_sample.timestamp - det_prev.start_sample.timestamp >= MIN_DURATION_SEC
  /\ det_new.start_sample.lat = det_sample.lat
  /\ det_event = "None"

\* A later sample, away from the first fix, has confirmed the candidate whose
\* start sample was backfilled.
C38_ConfirmedAfterBackfill ==
  /\ DetCandidateChecked
  /\ det_backfilled
  /\ det_event = "MISSION_STARTED"

====
